---- MODULE Spec2Model ----
(***************************************************************************)
(* Verification model of the Eve-flipper core: the universe graph          *)
(* (internal/graph), the alert pipeline (internal/api, internal/db), the   *)
(* scan-result tables (internal/db) and the public-contract scan           *)
(* (internal/engine).                                                      *)
(*                                                                         *)
(* Numbers that are float64 in the program are fixed-point integers here:  *)
(* security ratings are in tenths (0.5 -> 5), times are in milliseconds,   *)
(* percentages are whole percents and ratios are in hundredths.            *)
(***************************************************************************)
EXTENDS Integers, Sequences, FiniteSets, TLC

VARIABLES
    Adj,             \* Universe.Adj: system -> sequence of neighbours
    SystemSecurity,  \* Universe.SystemSecurity: partial map system -> security (tenths)
    gCall,           \* the last graph query and what it returned
    watchlist,       \* table watchlist: type_id -> row (type_id is unique)
    alert_history,   \* table alert_history: set of rows (id, type, metric, threshold, sent_at)
    nextAlertID,     \* the next autoincrement id of alert_history
    now,             \* the wall clock, in milliseconds
    ticks,           \* how many times the clock has advanced
    scanPc,          \* per scan: "idle" or "sending" (between the check and its sends)
    scanAlerts,      \* per scan: the alerts CheckWatchlistAlerts returned, not yet sent
    last,            \* the operation of the last step: its inputs and what it returned
    flip_results,    \* table flip_results: the rows, in insertion order
    contract_results,\* table contract_results
    station_results, \* table station_results
    inserts,         \* how many Insert*Results calls were made
    rCall,           \* the last Insert*Results call: its table, scan id and result set
    sellOrders,      \* the sell orders fetched in the buy radius
    buyOrdersForLiquidation, \* the buy orders fetched in the sell radius
    history,         \* market history of the primary region: type -> VWAP, daily volume
    allContracts,    \* the public contracts fetched from the regions
    contractItems,   \* contract id -> its item lines
    cPrev,           \* the ScanContracts call before the last
    cCall,           \* the last ScanContracts call: its parameters and what it returned
    txns,            \* ComputePortfolioPnLWithOptions: the wallet transactions passed in
    pfOpt,           \* the options passed in
    parsed,          \* the transactions sorted by time, ties by transaction id
    pfPc,            \* where the function is: "idle", "start", "loop", "match", "done"
    pfIdx,           \* the index of the loop over parsed
    buyQueues,       \* type id -> the open buy lots, oldest first
    pfQueue,         \* the local slice of the sell being matched
    pfRemaining,     \* the quantity of the sell not yet matched
    coverage,        \* the MatchingCoverage counters
    ledger,          \* the realized trade legs, in the order they were appended
    matches,         \* every consumption of a lot by a sell, in order (history)
    pfOut,           \* what the function returned
    fPc,             \* ScanContracts run goroutine by goroutine: "idle" or "wait" (at wg.Wait)
    fParams,         \* the parameters of the run
    fMarket,         \* what ESI holds: the orders both fetches return, the contract ids
    wg,              \* the counter of the WaitGroup wg
    contractsWg,     \* the counter of the WaitGroup contractsWg
    contractsMu,     \* the region whose goroutine holds contractsMu, 0 when free
    ordersPc,        \* the two order goroutines: "none", "run" or "done"
    contractsPc,     \* the contracts goroutine: "none", "spawn" or "done"
    regionPc,        \* region -> "new", "fetch", "lock", "append", "done" or "failed"
    fLog,            \* the regions a "failed to fetch contracts" line was logged for
    fProgress,       \* the messages the progress callback received, in order
    fCancelled,      \* the caller has given the scan up
    hInput,          \* fetchContractItemsHistory: s.History is set, the type ids passed
    hLoop,           \* the function: "idle", "start", "loop", "send", "wait", "returned"
    hUnvisited,      \* the type ids the loop has not reached: with and without price data
    hWorkers,        \* the number of workers at each stage, the observed type apart
    hTag,            \* the stage of the observed type id
    hTagRuns,        \* how many workers have run for the observed type id
    hTagHasHistory,  \* pdata.HasHistory of the observed type id
    sem,             \* the number of tokens in the channel sem
    historyWg        \* the counter of the WaitGroup of the function

graphVars == <<Adj, SystemSecurity, gCall>>
alertVars == <<watchlist, alert_history, nextAlertID, now, ticks, scanPc,
               scanAlerts, last>>

resultVars == <<flip_results, contract_results, station_results, inserts, rCall>>

contractVars == <<sellOrders, buyOrdersForLiquidation, history, allContracts,
                  contractItems, cPrev, cCall>>

portfolioVars == <<txns, pfOpt, parsed, pfPc, pfIdx, buyQueues, pfQueue, pfRemaining,
                   coverage, ledger, matches, pfOut>>

fanInVars == <<fPc, fParams, fMarket, wg, contractsWg, contractsMu, ordersPc,
               contractsPc, regionPc, fLog, fProgress, fCancelled>>

historyVars == <<hInput, hLoop, hUnvisited, hWorkers, hTag, hTagRuns, hTagHasHistory,
                 sem, historyWg>>

vars == <<graphVars, alertVars, resultVars, contractVars, portfolioVars, fanInVars,
          historyVars>>

\* what the operations of one component leave alone
notGraphVars ==
    <<alertVars, resultVars, contractVars, portfolioVars, fanInVars, historyVars>>
notAlertVars ==
    <<graphVars, resultVars, contractVars, portfolioVars, fanInVars, historyVars>>
notResultVars ==
    <<graphVars, alertVars, contractVars, portfolioVars, fanInVars, historyVars>>
notContractVars ==
    <<graphVars, alertVars, resultVars, portfolioVars, fanInVars, historyVars>>
notPortfolioVars ==
    <<graphVars, alertVars, resultVars, contractVars, fanInVars, historyVars>>

-----------------------------------------------------------------------------
(* Bounds of the universe graph                                            *)

NumSystems == 3
MaxRadius == 2

Systems == 1..NumSystems
Radii == 0..MaxRadius
\* security ratings drawn for a system (tenths): 0.4 and 0.9
SecurityValues == {4, 9}
\* security floors passed by callers (tenths): none, and 0.5
Floors == {0, 5}

NoCall == [op |-> "none"]

\* the nil error
NilError == "nil"

-----------------------------------------------------------------------------
(* Helpers                                                                 *)

RECURSIVE SetToSortedSeq(_)
SetToSortedSeq(S) ==
    IF S = {} THEN <<>>
    ELSE LET m == CHOOSE x \in S : \A y \in S : x <= y
         IN <<m>> \o SetToSortedSeq(S \ {m})

\* a Go map read m[k] with the ok flag: the set of keys
HasKey(m, k) == k \in DOMAIN m

\* m with m[k] = v added or overwritten
MapPut(m, k, v) == [x \in (DOMAIN m) \cup {k} |-> IF x = k THEN v ELSE m[x]]

EmptyMap == [x \in {} |-> 0]

-----------------------------------------------------------------------------
(* internal/graph: breadth-first search over the adjacency list            *)

\* the neighbour filter of both searches:
\*   if minSecurity > 0 { if sec, ok := SystemSecurity[neighbor]; !ok || sec < minSecurity { continue } }
NeighborAllowed(neighbor, minSecurity) ==
    (minSecurity > 0) =>
        (HasKey(SystemSecurity, neighbor) /\ SystemSecurity[neighbor] >= minSecurity)

\* the inner loop of SystemsWithinRadiusMinSecurity over Adj[current], from index i
RECURSIVE RadiusVisit(_, _, _, _, _, _)
RadiusVisit(result, queue, nbrs, i, dist, minSecurity) ==
    IF i > Len(nbrs) THEN [result |-> result, queue |-> queue]
    ELSE LET neighbor == nbrs[i] IN
         IF ~NeighborAllowed(neighbor, minSecurity)
         THEN RadiusVisit(result, queue, nbrs, i + 1, dist, minSecurity)
         ELSE IF ~HasKey(result, neighbor)
              THEN RadiusVisit(MapPut(result, neighbor, dist + 1),
                               Append(queue, neighbor), nbrs, i + 1, dist, minSecurity)
              ELSE RadiusVisit(result, queue, nbrs, i + 1, dist, minSecurity)

\* mutant: the radius test lets a frontier system at distance maxJumps expand
RadiusStop_OffByOne(dist, maxJumps) == dist > maxJumps

\* if dist >= maxJumps { continue }
RadiusStop(dist, maxJumps) == dist >= maxJumps

\* the queue loop of SystemsWithinRadiusMinSecurity
RECURSIVE RadiusLoop(_, _, _, _)
RadiusLoop(result, queue, maxJumps, minSecurity) ==
    IF Len(queue) = 0 THEN result
    ELSE LET current == Head(queue)
             rest == Tail(queue)
             dist == result[current]
         IN IF RadiusStop(dist, maxJumps)
            THEN RadiusLoop(result, rest, maxJumps, minSecurity)
            ELSE LET v == RadiusVisit(result, rest, Adj[current], 1, dist, minSecurity)
                 IN RadiusLoop(v.result, v.queue, maxJumps, minSecurity)

SystemsWithinRadiusMinSecurity(origin, maxJumps, minSecurity) ==
    RadiusLoop(MapPut(EmptyMap, origin, 0), <<origin>>, maxJumps, minSecurity)

SystemsWithinRadius(origin, maxJumps) ==
    SystemsWithinRadiusMinSecurity(origin, maxJumps, 0)

\* the origin/dest test of ShortestPathMinSecurity: a known rating below the floor
EndpointBelowFloor(sys, minSecurity) ==
    minSecurity > 0 /\ HasKey(SystemSecurity, sys) /\ SystemSecurity[sys] < minSecurity

\* the inner loop of ShortestPathMinSecurity over Adj[current], from index i;
\* found is set when the loop returned nd for the destination
RECURSIVE PathVisit(_, _, _, _, _, _, _)
PathVisit(dist, queue, nbrs, i, currentDist, dest, minSecurity) ==
    IF i > Len(nbrs) THEN [found |-> FALSE, ret |-> -1, dist |-> dist, queue |-> queue]
    ELSE LET neighbor == nbrs[i] IN
         IF ~NeighborAllowed(neighbor, minSecurity)
         THEN PathVisit(dist, queue, nbrs, i + 1, currentDist, dest, minSecurity)
         ELSE IF ~HasKey(dist, neighbor)
              THEN LET nd == currentDist + 1 IN
                   IF neighbor = dest
                   THEN [found |-> TRUE, ret |-> nd, dist |-> dist, queue |-> queue]
                   ELSE PathVisit(MapPut(dist, neighbor, nd), Append(queue, neighbor),
                                  nbrs, i + 1, currentDist, dest, minSecurity)
              ELSE PathVisit(dist, queue, nbrs, i + 1, currentDist, dest, minSecurity)

\* the queue loop of ShortestPathMinSecurity
RECURSIVE PathLoop(_, _, _, _)
PathLoop(dist, queue, dest, minSecurity) ==
    IF Len(queue) = 0 THEN -1
    ELSE LET current == Head(queue)
             v == PathVisit(dist, Tail(queue), Adj[current], 1, dist[current],
                            dest, minSecurity)
         IN IF v.found THEN v.ret
            ELSE PathLoop(v.dist, v.queue, dest, minSecurity)

\* mutant: an endpoint below the floor answers 0 instead of -1
ShortestPathMinSecurity_BlockedIsZero(origin, dest, minSecurity) ==
    IF origin = dest THEN 0
    ELSE IF EndpointBelowFloor(origin, minSecurity) \/ EndpointBelowFloor(dest, minSecurity)
         THEN 0
         ELSE PathLoop(MapPut(EmptyMap, origin, 0), <<origin>>, dest, minSecurity)

ShortestPathMinSecurity(origin, dest, minSecurity) ==
    IF origin = dest THEN 0
    ELSE IF EndpointBelowFloor(origin, minSecurity) \/ EndpointBelowFloor(dest, minSecurity)
         THEN -1
         ELSE PathLoop(MapPut(EmptyMap, origin, 0), <<origin>>, dest, minSecurity)

\* mutant: the unfiltered search passes a security floor of 0.5
ShortestPath_DefaultFloor(origin, dest) == ShortestPathMinSecurity(origin, dest, 5)

ShortestPath(origin, dest) == ShortestPathMinSecurity(origin, dest, 0)

-----------------------------------------------------------------------------
(* The universes the queries run on: every undirected graph over Systems   *)
(* (adjacency lists hold each edge in both directions) and every partial   *)
(* security map.                                                           *)

UndirectedPairs == {e \in SUBSET Systems : Cardinality(e) = 2}

AdjOf(edges) ==
    [s \in Systems |-> SetToSortedSeq({t \in Systems : {s, t} \in edges})]

SecurityMaps ==
    UNION {[D -> SecurityValues] : D \in SUBSET Systems}

GraphInit ==
    /\ \E edges \in SUBSET UndirectedPairs : Adj = AdjOf(edges)
    /\ SystemSecurity \in SecurityMaps
    /\ gCall = NoCall

\* One query is made on each universe: the four operations are pure, so a
\* second query would only repeat the first.
CallShortestPath(origin, dest) ==
    /\ gCall = NoCall
    /\ gCall' = [op |-> "ShortestPath", origin |-> origin, dest |-> dest,
                 minSecurity |-> 0, ret |-> ShortestPath(origin, dest)]
    /\ UNCHANGED <<Adj, SystemSecurity, notGraphVars>>

CallShortestPathMinSecurity(origin, dest, minSecurity) ==
    /\ gCall = NoCall
    /\ gCall' = [op |-> "ShortestPathMinSecurity", origin |-> origin, dest |-> dest,
                 minSecurity |-> minSecurity,
                 ret |-> ShortestPathMinSecurity(origin, dest, minSecurity)]
    /\ UNCHANGED <<Adj, SystemSecurity, notGraphVars>>

CallSystemsWithinRadius(origin, maxJumps) ==
    /\ gCall = NoCall
    /\ gCall' = [op |-> "SystemsWithinRadius", origin |-> origin, maxJumps |-> maxJumps,
                 minSecurity |-> 0, ret |-> SystemsWithinRadius(origin, maxJumps)]
    /\ UNCHANGED <<Adj, SystemSecurity, notGraphVars>>

CallSystemsWithinRadiusMinSecurity(origin, maxJumps, minSecurity) ==
    /\ gCall = NoCall
    /\ gCall' = [op |-> "SystemsWithinRadiusMinSecurity", origin |-> origin,
                 maxJumps |-> maxJumps, minSecurity |-> minSecurity,
                 ret |-> SystemsWithinRadiusMinSecurity(origin, maxJumps, minSecurity)]
    /\ UNCHANGED <<Adj, SystemSecurity, notGraphVars>>

GraphNext ==
    \/ \E a \in Systems, b \in Systems : CallShortestPath(a, b)
    \/ \E a \in Systems, b \in Systems, f \in Floors : CallShortestPathMinSecurity(a, b, f)
    \/ \E a \in Systems, r \in Radii : CallSystemsWithinRadius(a, r)
    \/ \E a \in Systems, r \in Radii, f \in Floors :
           CallSystemsWithinRadiusMinSecurity(a, r, f)


-----------------------------------------------------------------------------
(* internal/api alerts and internal/db alert history                       *)

\* Bounds of the alert model
MaxTicks == 2
MaxAlertRows == 2
MaxSaves == 3

\* DefaultAlertCooldownSeconds = 3600
DefaultAlertCooldownSeconds == 3600
MsPerSecond == 1000

TypeIDs == {34, 35}
Scans == {1, 2}
\* alert_metric values: unset (read as margin_percent) and total_profit
Metrics == {"", "total_profit"}
\* clock advances, in milliseconds: 10 minutes, and half a second less than
\* one hour
TickSteps == {600000, 3599500}

\* the zero time.Time
ZeroTime == -1

\* the alert settings <<metric, threshold, legacy min margin>> a watchlist
\* edit can write: a threshold of 5 or 10 on the default metric, no threshold
\* (0) with a legacy min margin of 5 or none, and a threshold of 10 on the
\* total profit
AlertSettings ==
    {<<"", 5, 0>>, <<"", 10, 0>>, <<"", 0, 5>>, <<"", 0, 0>>, <<"total_profit", 10, 0>>}

\* the rows a watchlist edit can write: type 34 enabled with every alert
\* setting or disabled with a threshold of 5, and type 35 with one setting
WatchlistItems ==
    {[TypeID |-> 34, AlertEnabled |-> TRUE, AlertMetric |-> st[1],
      AlertThreshold |-> st[2], AlertMinMargin |-> st[3]] : st \in AlertSettings}
    \cup {[TypeID |-> 34, AlertEnabled |-> FALSE, AlertMetric |-> "",
            AlertThreshold |-> 5, AlertMinMargin |-> 0]}
    \cup {[TypeID |-> 35, AlertEnabled |-> TRUE, AlertMetric |-> "total_profit",
            AlertThreshold |-> 5, AlertMinMargin |-> 0]}

\* the watchlist the database holds at start: empty, or one enabled row
InitialWatchlists ==
    {EmptyMap} \cup
    {MapPut(EmptyMap, 34, [TypeID |-> 34, AlertEnabled |-> TRUE, AlertMetric |-> "",
                           AlertThreshold |-> th, AlertMinMargin |-> 0]) : th \in {5, 10}}

FlipResult(typeID, margin, total) ==
    [TypeID |-> typeID, MarginPercent |-> margin, TotalProfit |-> total,
     ProfitPerUnit |-> 1, DailyVolume |-> 1]

StationTrade(typeID, marginPct, margin, volume) ==
    [TypeID |-> typeID, MarginPct |-> marginPct, Margin |-> margin,
     Volume |-> volume, BuyVolume |-> 1, SellVolume |-> 1]

\* the result sets handed to CheckWatchlistAlerts: []FlipResult with at most
\* one row per type, or a []ContractResult
ResultSets ==
    LET rows34 == {<<>>, <<FlipResult(34, 12, 7)>>}
        rows35 == {<<>>, <<FlipResult(35, 12, 12)>>}
    IN {[kind |-> "flip", rows |-> a \o b] : a \in rows34, b \in rows35}
       \cup {[kind |-> "contract", rows |-> <<>>]}

\* []StationTrade result sets: none or one row of type 34 (margin 7 percent,
\* 2 per unit on a volume of 6) before a row of type 35 (1 per unit on 6)
StationResultSets ==
    LET rows34 == {<<>>, <<StationTrade(34, 7, 2, 6)>>}
    IN {[kind |-> "station", rows |-> a \o <<StationTrade(35, 12, 1, 6)>>] : a \in rows34}

\* time.Now().UTC().Format(time.RFC3339): whole seconds, the fraction is dropped
FormatRFC3339(t) == t \div MsPerSecond

\* time.Parse(time.RFC3339, sentAt)
ParseRFC3339(str) == str * MsPerSecond

\* SELECT ... WHERE watchlist_type_id = ? AND alert_metric = ? AND alert_threshold = ?
MatchingAlerts(typeID, metric, threshold) ==
    {r \in alert_history : /\ r.WatchlistTypeID = typeID
                           /\ r.AlertMetric = metric
                           /\ r.AlertThreshold = threshold}

\* mutant: the lookup ignores the threshold column
GetLastAlertTime_AnyThreshold(typeID, metric, threshold) ==
    LET rows == {r \in alert_history : /\ r.WatchlistTypeID = typeID
                                       /\ r.AlertMetric = metric}
    IN IF rows = {} THEN ZeroTime
       ELSE ParseRFC3339((CHOOSE r \in rows : \A q \in rows : q.SentAt <= r.SentAt).SentAt)

\* DB.GetLastAlertTime: ORDER BY sent_at DESC LIMIT 1; the zero time when no row
GetLastAlertTime(typeID, metric, threshold) ==
    LET rows == MatchingAlerts(typeID, metric, threshold)
    IN IF rows = {} THEN ZeroTime
       ELSE ParseRFC3339((CHOOSE r \in rows : \A q \in rows : q.SentAt <= r.SentAt).SentAt)

\* DB.GetAlertHistory(typeID, 0): typeID > 0 filters, typeID <= 0 returns all rows
GetAlertHistory(typeID) ==
    IF typeID > 0 THEN {r \in alert_history : r.WatchlistTypeID = typeID}
    ELSE alert_history

\* mutant: the delete keeps the rows of the type and removes the others
DeleteAlertHistoryRows_Others(rows, typeID) ==
    {r \in rows : r.WatchlistTypeID = typeID}

\* DB.DeleteAlertHistory: DELETE FROM alert_history WHERE watchlist_type_id = ?
DeleteAlertHistoryRows(rows, typeID) ==
    {r \in rows : r.WatchlistTypeID # typeID}

extractFlipMetric(item, metric) ==
    CASE metric = "margin_percent" -> item.MarginPercent
      [] metric = "total_profit" -> item.TotalProfit
      [] metric = "profit_per_unit" -> item.ProfitPerUnit
      [] metric = "daily_volume" -> item.DailyVolume
      [] OTHER -> 0

extractStationMetric(item, metric) ==
    CASE metric = "margin_percent" -> item.MarginPct
      [] metric = "total_profit" -> item.Margin * item.Volume
      [] metric = "profit_per_unit" -> item.Margin
      [] metric = "daily_volume" -> item.BuyVolume + item.SellVolume
      [] OTHER -> 0

\* mutant: the first row is taken whatever its type
extractMetricValue_FirstRow(typeID, metric, results) ==
    IF results.kind \in {"flip", "station"} /\ Len(results.rows) > 0
    THEN [ok |-> TRUE,
          value |-> IF results.kind = "flip"
                    THEN extractFlipMetric(results.rows[1], metric)
                    ELSE extractStationMetric(results.rows[1], metric)]
    ELSE [ok |-> FALSE, value |-> 0]

\* Server.extractMetricValue: the first row of the type in []FlipResult or
\* []StationTrade; ok is false when the type is absent or the results are
\* contract results
extractMetricValue(typeID, metric, results) ==
    IF results.kind \in {"flip", "station"}
    THEN LET hits == {i \in 1..Len(results.rows) : results.rows[i].TypeID = typeID}
         IN IF hits = {} THEN [ok |-> FALSE, value |-> 0]
            ELSE LET i == CHOOSE j \in hits : \A k \in hits : j <= k
                 IN [ok |-> TRUE,
                     value |-> IF results.kind = "flip"
                               THEN extractFlipMetric(results.rows[i], metric)
                               ELSE extractStationMetric(results.rows[i], metric)]
    ELSE [ok |-> FALSE, value |-> 0]

EffectiveMetric(item) ==
    IF item.AlertMetric = "" THEN "margin_percent" ELSE item.AlertMetric

EffectiveThreshold(item) ==
    IF item.AlertThreshold <= 0 THEN item.AlertMinMargin ELSE item.AlertThreshold

\* mutant: the cooldown test is skipped
CooldownActive_Never(lastAlertTime, t) == FALSE

\* if !lastAlertTime.IsZero() { elapsed := time.Since(lastAlertTime);
\*     if elapsed < DefaultAlertCooldownSeconds*time.Second { continue } }
CooldownActive(lastAlertTime, t) ==
    /\ lastAlertTime # ZeroTime
    /\ t - lastAlertTime < DefaultAlertCooldownSeconds * MsPerSecond

\* the body of the loop of CheckWatchlistAlerts for one watchlist row: the
\* alert it appends, as a sequence of length 0 or 1. failed is the set of
\* types for which GetLastAlertTime returned an error
CheckItem(item, results, failed) ==
    LET metric == EffectiveMetric(item)
        threshold == EffectiveThreshold(item)
        cur == extractMetricValue(item.TypeID, metric, results)
    IN IF ~item.AlertEnabled THEN <<>>
       ELSE IF threshold <= 0 THEN <<>>
       ELSE IF ~cur.ok THEN <<>>
       ELSE IF cur.value < threshold THEN <<>>
       ELSE IF item.TypeID \in failed THEN <<>>
       ELSE IF CooldownActive(GetLastAlertTime(item.TypeID, metric, threshold), now)
            THEN <<>>
       ELSE <<[TypeID |-> item.TypeID, Metric |-> metric, Threshold |-> threshold,
               CurrentValue |-> cur.value,
               LastAlertAt |-> GetLastAlertTime(item.TypeID, metric, threshold)]>>

\* for _, item := range watchlist { ... }, rows taken in type_id order
RECURSIVE CheckItems(_, _, _)
CheckItems(types, results, failed) ==
    IF Len(types) = 0 THEN <<>>
    ELSE CheckItem(watchlist[Head(types)], results, failed)
         \o CheckItems(Tail(types), results, failed)

CheckWatchlistAlertsResult(results, failed) ==
    CheckItems(SetToSortedSeq(DOMAIN watchlist), results, failed)

AlertTriple(a) == <<a.TypeID, a.Metric, a.Threshold>>
RowTriple(r) == <<r.WatchlistTypeID, r.AlertMetric, r.AlertThreshold>>

AlertInit ==
    /\ watchlist \in InitialWatchlists
    /\ alert_history = {}
    /\ nextAlertID = 1
    /\ now = 0
    /\ ticks = 0
    /\ scanPc = [s \in Scans |-> "idle"]
    /\ scanAlerts = [s \in Scans |-> <<>>]
    /\ last = NoCall

\* the clock advances
Tick(d) ==
    /\ ticks < MaxTicks
    /\ now' = now + d
    /\ ticks' = ticks + 1
    /\ last' = [op |-> "Tick"]
    /\ UNCHANGED <<watchlist, alert_history, nextAlertID, scanPc, scanAlerts, notAlertVars>>

\* DB.AddWatchlistItem: inserts the row unless the type is already watched
AddWatchlistItem(item) ==
    /\ watchlist' = IF HasKey(watchlist, item.TypeID) THEN watchlist
                    ELSE MapPut(watchlist, item.TypeID, item)
    /\ last' = [op |-> "AddWatchlistItem"]
    /\ UNCHANGED <<alert_history, nextAlertID, now, ticks, scanPc, scanAlerts, notAlertVars>>

\* DB.UpdateWatchlistItem(typeID, minMargin, enabled, metric, threshold)
UpdateWatchlistItem(typeID, minMargin, enabled, metric, threshold) ==
    /\ watchlist' = IF HasKey(watchlist, typeID)
                    THEN MapPut(watchlist, typeID,
                                [TypeID |-> typeID, AlertEnabled |-> enabled,
                                 AlertMetric |-> metric, AlertThreshold |-> threshold,
                                 AlertMinMargin |-> minMargin])
                    ELSE watchlist
    /\ last' = [op |-> "UpdateWatchlistItem"]
    /\ UNCHANGED <<alert_history, nextAlertID, now, ticks, scanPc, scanAlerts, notAlertVars>>

\* DB.DeleteWatchlistItem: removes the row; the foreign key of alert_history
\* (ON DELETE CASCADE) removes the alert rows of the type
DeleteWatchlistItem(typeID) ==
    /\ watchlist' = [t \in (DOMAIN watchlist) \ {typeID} |-> watchlist[t]]
    /\ alert_history' = IF HasKey(watchlist, typeID)
                        THEN DeleteAlertHistoryRows(alert_history, typeID)
                        ELSE alert_history
    /\ last' = [op |-> "DeleteWatchlistItem", typeID |-> typeID,
                  before |-> alert_history]
    /\ UNCHANGED <<nextAlertID, now, ticks, scanPc, scanAlerts, notAlertVars>>

\* the INSERT of DB.SaveAlertHistory: refused by the foreign key when the
\* type is not in watchlist, and failing when the database does (dbOk false)
SaveAlertHistorySucceeds(entry, dbOk) ==
    dbOk /\ HasKey(watchlist, entry.WatchlistTypeID)

\* DB.SaveAlertHistory called directly with a row stamped now
SaveAlertHistory(typeID, metric, threshold, dbOk) ==
    LET entry == [ID |-> nextAlertID, WatchlistTypeID |-> typeID,
                  AlertMetric |-> metric, AlertThreshold |-> threshold,
                  SentAt |-> FormatRFC3339(now)]
    IN /\ nextAlertID <= MaxSaves
       /\ IF SaveAlertHistorySucceeds(entry, dbOk)
          THEN /\ alert_history' = alert_history \cup {entry}
               /\ nextAlertID' = nextAlertID + 1
          ELSE UNCHANGED <<alert_history, nextAlertID>>
       /\ last' = [op |-> "SaveAlertHistory", typeID |-> typeID,
                     before |-> alert_history]
       /\ UNCHANGED <<watchlist, now, ticks, scanPc, scanAlerts, notAlertVars>>

\* Server.CheckWatchlistAlerts run by scan s on a completed result set
CheckWatchlistAlerts(s, results, failed) ==
    /\ scanPc[s] = "idle"
    /\ LET alerts == CheckWatchlistAlertsResult(results, failed)
       IN /\ scanAlerts' = [scanAlerts EXCEPT ![s] = alerts]
          /\ scanPc' = [scanPc EXCEPT ![s] = IF Len(alerts) = 0 THEN "idle" ELSE "sending"]
          /\ last' = [op |-> "CheckWatchlistAlerts", scan |-> s, at |-> now,
                      results |-> results, failed |-> failed, alerts |-> alerts]
    /\ UNCHANGED <<watchlist, alert_history, nextAlertID, now, ticks, notAlertVars>>

\* the outcomes of sendConfiguredExternalAlerts: the channels that took the
\* message and the channels that failed
ChannelResults ==
    {[Sent |-> <<>>, Failed |-> <<>>],
     [Sent |-> <<"telegram">>, Failed |-> <<"discord">>],
     [Sent |-> <<"telegram", "discord">>, Failed |-> <<>>]}

TelegramOnly == [Sent |-> <<"telegram">>, Failed |-> <<"discord">>]

\* mutant: a failed save of the history row fails the send
SendAlertOutcome_SaveErrorReturned(external, alertDesktop, saved) ==
    LET channelsSent == IF alertDesktop THEN Append(external.Sent, "desktop")
                        ELSE external.Sent
    IN [channelsSent |-> channelsSent,
        channelsFailed |-> external.Failed,
        log |-> IF saved THEN <<"Sent alert">> ELSE <<>>,
        err |-> IF saved THEN NilError ELSE "save alert history failed"]

\* what SendAlert leaves behind apart from the history row: the channels that
\* took the message (desktop appended when cfg.AlertDesktop), the lines
\* logged, and the error returned
SendAlertOutcome(external, alertDesktop, saved) ==
    LET channelsSent == IF alertDesktop THEN Append(external.Sent, "desktop")
                        ELSE external.Sent
    IN [channelsSent |-> channelsSent,
        channelsFailed |-> external.Failed,
        log |-> IF saved THEN <<"Sent alert">>
                ELSE <<"Failed to save alert history", "Sent alert">>,
        err |-> NilError]

\* Server.SendAlert for the next alert of scan s: the channels are called,
\* then the history row is saved; a failed save is logged and nil is returned.
\* At most MaxAlertRows rows are saved: after that every save fails.
SendAlert(s, external, alertDesktop, dbOk) ==
    /\ scanPc[s] = "sending"
    /\ dbOk => nextAlertID <= MaxAlertRows
    /\ LET alert == Head(scanAlerts[s])
           entry == [ID |-> nextAlertID, WatchlistTypeID |-> alert.TypeID,
                     AlertMetric |-> alert.Metric, AlertThreshold |-> alert.Threshold,
                     SentAt |-> FormatRFC3339(now)]
           rest == Tail(scanAlerts[s])
           saved == SaveAlertHistorySucceeds(entry, dbOk)
       IN /\ IF saved
             THEN /\ alert_history' = alert_history \cup {entry}
                  /\ nextAlertID' = nextAlertID + 1
             ELSE UNCHANGED <<alert_history, nextAlertID>>
          /\ scanAlerts' = [scanAlerts EXCEPT ![s] = rest]
          /\ scanPc' = [scanPc EXCEPT ![s] = IF Len(rest) = 0 THEN "idle" ELSE "sending"]
          /\ last' = [op |-> "SendAlert", typeID |-> alert.TypeID, alert |-> alert,
                       saved |-> saved, before |-> alert_history,
                       external |-> external,
                       out |-> SendAlertOutcome(external, alertDesktop, saved)]
    /\ UNCHANGED <<watchlist, now, ticks, notAlertVars>>

\* The sequential pipeline: one scan at a time runs CheckWatchlistAlerts and
\* then SendAlert for every alert returned; watchlist edits and the clock
\* move between the evaluations.
AlertNext ==
    \/ \E d \in TickSteps : Tick(d)
    \/ \E item \in WatchlistItems : AddWatchlistItem(item)
    \/ \E item \in WatchlistItems :
           UpdateWatchlistItem(item.TypeID, item.AlertMinMargin, item.AlertEnabled,
                               item.AlertMetric, item.AlertThreshold)
    \/ \E t \in TypeIDs : DeleteWatchlistItem(t)
    \/ \E r \in ResultSets, failed \in {{}, {34}} : CheckWatchlistAlerts(1, r, failed)
    \/ \E ok \in BOOLEAN : SendAlert(1, TelegramOnly, TRUE, ok)

\* The pipeline on every kind of result set and every outcome of the
\* channels: flip, station and contract results are evaluated between
\* watchlist edits, at one instant of the clock.
EligibilityNext ==
    \/ \E item \in WatchlistItems : AddWatchlistItem(item)
    \/ \E item \in WatchlistItems :
           UpdateWatchlistItem(item.TypeID, item.AlertMinMargin, item.AlertEnabled,
                               item.AlertMetric, item.AlertThreshold)
    \/ \E t \in TypeIDs : DeleteWatchlistItem(t)
    \/ \E r \in ResultSets \cup StationResultSets, failed \in {{}, {34}} :
           CheckWatchlistAlerts(1, r, failed)
    \/ \E external \in ChannelResults, alertDesktop \in BOOLEAN, ok \in BOOLEAN :
           SendAlert(1, external, alertDesktop, ok)

\* Two scans complete concurrently: each runs CheckWatchlistAlerts and then
\* SendAlert for every alert returned, on its own goroutine; the steps of the
\* two interleave in any order, and the clock moves.
ConcurrentScansNext ==
    \/ \E d \in TickSteps : Tick(d)
    \/ \E s \in Scans, r \in ResultSets : CheckWatchlistAlerts(s, r, {})
    \/ \E s \in Scans : SendAlert(s, TelegramOnly, TRUE, TRUE)

\* The database operations of the cascade: watchlist rows are added and
\* deleted and alert rows are saved directly.
CascadeNext ==
    \/ \E item \in WatchlistItems : AddWatchlistItem(item)
    \/ \E t \in TypeIDs : DeleteWatchlistItem(t)
    \/ \E t \in TypeIDs, th \in {5, 10}, ok \in BOOLEAN :
           SaveAlertHistory(t, "margin_percent", th, ok)

-----------------------------------------------------------------------------
(* Scan result tables: InsertFlipResults, InsertContractResults,           *)
(* InsertStationResults                                                    *)

MaxInserts == 2
MaxRows == 2

\* scan ids: 0 (no history record) and the ids InsertHistory handed out
ScanIDs == {0, 1, 2}

\* the rows of the result sets, by table. A flip row is written in full; a
\* contract row carries the long-horizon fields and a station row the
\* execution fields (row 1 as in the round-trip tests, the later rows with
\* those fields at their zero values).
ResultRow(kind, i) ==
    IF kind = "flip"
    THEN [TypeID |-> 99 + i, TotalProfit |-> 500 * i]
    ELSE IF kind = "contract"
    THEN [ContractID |-> 12344 + i, Profit |-> 200 * i,
          ExpectedProfit |-> IF i = 1 THEN 120 ELSE 0,
          SellConfidence |-> IF i = 1 THEN 86 ELSE 0,
          EstLiquidationDays |-> IF i = 1 THEN 6 ELSE 0]
    ELSE [TypeID |-> 33 + i, DailyVolume |-> 120000 * i,
          ExpectedProfit |-> IF i = 1 THEN 35 ELSE 0,
          DailyProfit |-> IF i = 1 THEN 1450000 ELSE 0,
          RealProfit |-> IF i = 1 THEN 1400000 ELSE 0,
          FilledQty |-> IF i = 1 THEN 40000 ELSE 0,
          CanFill |-> i = 1]

\* the result set handed to an insert: n rows
ResultSet(kind, n) == [i \in 1..n |-> ResultRow(kind, i)]

\* the columns the INSERT statement of the table names, from the result
InsertColumns(kind, scanID, r) ==
    IF kind = "flip"
    THEN [scan_id |-> scanID, type_id |-> r.TypeID, total_profit |-> r.TotalProfit]
    ELSE IF kind = "contract"
    THEN [scan_id |-> scanID, contract_id |-> r.ContractID, profit |-> r.Profit]
    ELSE [scan_id |-> scanID, type_id |-> r.TypeID, volume |-> r.DailyVolume]

\* rows.Scan into a fresh result: the columns the SELECT names, every other
\* field at its zero value
ScanRow(kind, c) ==
    IF kind = "flip"
    THEN [TypeID |-> c.type_id, TotalProfit |-> c.total_profit]
    ELSE IF kind = "contract"
    THEN [ContractID |-> c.contract_id, Profit |-> c.profit,
          ExpectedProfit |-> 0, SellConfidence |-> 0, EstLiquidationDays |-> 0]
    ELSE [TypeID |-> c.type_id, DailyVolume |-> c.volume,
          ExpectedProfit |-> 0, DailyProfit |-> 0, RealProfit |-> 0,
          FilledQty |-> 0, CanFill |-> FALSE]

\* the rows of a result set whose stmt.Exec succeeded, in order
RECURSIVE ExecRows(_, _, _, _, _)
ExecRows(kind, scanID, results, execOk, i) ==
    IF i > Len(results) THEN <<>>
    ELSE (IF i \in execOk THEN <<InsertColumns(kind, scanID, results[i])>> ELSE <<>>)
         \o ExecRows(kind, scanID, results, execOk, i + 1)

\* The body the three inserts share: return on scan id 0 or no results;
\* begin (error: return); prepare (error: rollback, return); Exec for every
\* row, the error of an Exec dropped; commit (error: logged, nothing written).
InsertRows(kind, table, scanID, results, beginOk, prepareOk, execOk, commitOk) ==
    IF scanID = 0 \/ Len(results) = 0 THEN table
    ELSE IF ~beginOk THEN table
    ELSE IF ~prepareOk THEN table
    ELSE IF commitOk THEN table \o ExecRows(kind, scanID, results, execOk, 1)
    ELSE table

\* SELECT ... WHERE scan_id = ?: the rows of a scan, in insertion order
RowsOfScan(kind, table, scanID) ==
    LET sel == SelectSeq(table, LAMBDA c : c.scan_id = scanID)
    IN [i \in 1..Len(sel) |-> ScanRow(kind, sel[i])]

GetFlipResults(scanID) == RowsOfScan("flip", flip_results, scanID)
GetContractResults(scanID) == RowsOfScan("contract", contract_results, scanID)
GetStationResults(scanID) == RowsOfScan("station", station_results, scanID)

ResultsInit ==
    /\ flip_results = <<>>
    /\ contract_results = <<>>
    /\ station_results = <<>>
    /\ inserts = 0
    /\ rCall = NoCall

\* a scan id comes from InsertHistory and its result set is inserted once
InsertFlipResults(scanID, results, beginOk, prepareOk, execOk, commitOk) ==
    /\ inserts < MaxInserts
    /\ GetFlipResults(scanID) = <<>>
    /\ flip_results' = InsertRows("flip", flip_results, scanID, results,
                                  beginOk, prepareOk, execOk, commitOk)
    /\ inserts' = inserts + 1
    /\ rCall' = [op |-> "InsertFlipResults", scanID |-> scanID, results |-> results]
    /\ UNCHANGED <<contract_results, station_results, notResultVars>>

InsertContractResults(scanID, results, beginOk, prepareOk, execOk, commitOk) ==
    /\ inserts < MaxInserts
    /\ GetContractResults(scanID) = <<>>
    /\ contract_results' = InsertRows("contract", contract_results, scanID, results,
                                      beginOk, prepareOk, execOk, commitOk)
    /\ inserts' = inserts + 1
    /\ rCall' = [op |-> "InsertContractResults", scanID |-> scanID, results |-> results]
    /\ UNCHANGED <<flip_results, station_results, notResultVars>>

InsertStationResults(scanID, results, beginOk, prepareOk, execOk, commitOk) ==
    /\ inserts < MaxInserts
    /\ GetStationResults(scanID) = <<>>
    /\ station_results' = InsertRows("station", station_results, scanID, results,
                                     beginOk, prepareOk, execOk, commitOk)
    /\ inserts' = inserts + 1
    /\ rCall' = [op |-> "InsertStationResults", scanID |-> scanID, results |-> results]
    /\ UNCHANGED <<flip_results, contract_results, notResultVars>>

ResultsNext ==
    \E scanID \in ScanIDs, n \in 0..MaxRows,
       beginOk \in BOOLEAN, prepareOk \in BOOLEAN, commitOk \in BOOLEAN :
        \E execOk \in SUBSET (1..n) :
            \/ InsertFlipResults(scanID, ResultSet("flip", n),
                                 beginOk, prepareOk, execOk, commitOk)
            \/ InsertContractResults(scanID, ResultSet("contract", n),
                                     beginOk, prepareOk, execOk, commitOk)
            \/ InsertStationResults(scanID, ResultSet("station", n),
                                    beginOk, prepareOk, execOk, commitOk)

-----------------------------------------------------------------------------
(* Contract scan: Scanner.ScanContracts                                    *)
(*                                                                         *)
(* float64 values are fixed point: money in thousandths of an ISK once a   *)
(* contract is valued (order and contract prices are whole ISK),           *)
(* probabilities in thousandths, ratios in hundredths, percentages whole.  *)

MaxContracts == 2

DefaultMinContractPrice == 10000000
DefaultMaxContractMargin == 100
\* 0.8, in hundredths
DefaultMinPricedRatio == 80
MinSellOrderVolume == 5
MinDailyVolumeForContract == 1
DefaultContractHoldDays == 7
MaxContractHoldDays == 180
DefaultContractTargetConfidence == 80
\* 0.35, in hundredths
ContractFillParticipation == 35
\* 0.03, in hundredths
ContractConservativePriceHaircut == 3
\* 0.001, in thousandths
ContractDailyCarryRate == 1
\* the cap on the returned list
MaxUnlimitedResults == 2
\* thousandths: money and probabilities
Milli == 1000

Min(a, b) == IF a <= b THEN a ELSE b

\* F(v), with v evaluated once
With(v, F(_)) == CHOOSE r \in {F(x) : x \in {v}} : TRUE

\* mutant: a maximum margin of 0 is read as no limit instead of the default
getContractFilters_ZeroMaxMarginUnlimited(params) ==
    [minPrice |-> IF params.MinContractPrice <= 0 THEN DefaultMinContractPrice
                  ELSE params.MinContractPrice,
     maxMargin |-> IF params.MaxContractMargin <= 0 THEN 100 * DefaultMaxContractMargin
                   ELSE params.MaxContractMargin,
     minPricedRatio |-> IF params.MinPricedRatio <= 0 THEN DefaultMinPricedRatio
                        ELSE params.MinPricedRatio]

getContractFilters(params) ==
    [minPrice |-> IF params.MinContractPrice <= 0 THEN DefaultMinContractPrice
                  ELSE params.MinContractPrice,
     maxMargin |-> IF params.MaxContractMargin <= 0 THEN DefaultMaxContractMargin
                   ELSE params.MaxContractMargin,
     minPricedRatio |-> IF params.MinPricedRatio <= 0 THEN DefaultMinPricedRatio
                        ELSE params.MinPricedRatio]

\* mutant: the broker fee is taken off in instant-liquidation mode too
contractSellValueMultiplier_BrokerInInstant(params) ==
    LET feePercent == params.SalesTaxPercent + params.BrokerFeePercent
        m == 100 - feePercent
    IN IF m < 0 THEN 0 ELSE m

\* the multiplier, in percent
contractSellValueMultiplier(params) ==
    IF params.ContractInstantLiquidation
    THEN LET m == 100 - params.SalesTaxPercent
         IN IF m < 0 THEN 0 ELSE m
    ELSE LET feePercent == params.SalesTaxPercent + params.BrokerFeePercent
             m == 100 - feePercent
         IN IF m < 0 THEN 0 ELSE m

contractHoldDays(params) ==
    IF params.ContractHoldDays <= 0 THEN DefaultContractHoldDays
    ELSE IF params.ContractHoldDays > MaxContractHoldDays THEN MaxContractHoldDays
    ELSE params.ContractHoldDays

\* mutant: an unset target confidence is no floor instead of the default
contractTargetConfidence_ZeroIsNoFloor(params) ==
    IF params.ContractTargetConfidence <= 0 THEN 0
    ELSE IF params.ContractTargetConfidence > 100 THEN 100
    ELSE params.ContractTargetConfidence

contractTargetConfidence(params) ==
    IF params.ContractTargetConfidence <= 0 THEN DefaultContractTargetConfidence
    ELSE IF params.ContractTargetConfidence > 100 THEN 100
    ELSE params.ContractTargetConfidence

\* the daily volume as a fraction num/den: the history's, or the sell book's
\* depth over 14 days
effectiveDailyVolume(pd) ==
    IF pd.DailyVolume > 0 THEN [num |-> pd.DailyVolume, den |-> 1]
    ELSE IF pd.TotalSellVol > 0 THEN [num |-> pd.TotalSellVol, den |-> 14]
    ELSE [num |-> 0, den |-> 1]

\* fill days as a fraction num/den, or infinite:
\* quantity / (dailyVol * ContractFillParticipation)
estimateFillDays(quantity, dailyVol) ==
    IF quantity <= 0 THEN [inf |-> FALSE, num |-> 0, den |-> 1]
    ELSE IF dailyVol.num <= 0 THEN [inf |-> TRUE, num |-> 0, den |-> 1]
    ELSE [inf |-> FALSE, num |-> quantity * dailyVol.den * 100,
          den |-> dailyVol.num * ContractFillParticipation]

\* the terms k.. of the series of exp(-f), f in thousandths below 1000,
\* term being the term k-1 without its sign
RECURSIVE ExpSeries(_, _, _)
ExpSeries(f, k, term) ==
    IF k > 8 \/ term = 0 THEN 0
    ELSE LET t == (term * f) \div (k * Milli)
         IN (IF k % 2 = 1 THEN 0 - t ELSE t) + ExpSeries(f, k + 1, t)

\* exp(-1)^n, in thousandths
RECURSIVE ExpNegInt(_)
ExpNegInt(n) == IF n = 0 THEN Milli ELSE (368 * ExpNegInt(n - 1)) \div Milli

\* math.Exp(-x) for x >= 0 in thousandths, in thousandths
ExpNeg(x) ==
    IF x >= 10 * Milli THEN 0
    ELSE LET frac == Milli + ExpSeries(x % Milli, 1, Milli)
         IN (ExpNegInt(x \div Milli) * frac) \div Milli

\* 1 - exp(-horizonDays / fillDays), in thousandths
fillProbabilityWithinDays(fillDays, horizonDays) ==
    IF horizonDays <= 0 THEN 0
    ELSE IF ~fillDays.inf /\ fillDays.num <= 0 THEN Milli
    ELSE IF fillDays.inf THEN 0
    ELSE LET x == (horizonDays * fillDays.den * Milli) \div fillDays.num
             p == Milli - ExpNeg(x)
         IN IF p < 0 THEN 0 ELSE IF p > Milli THEN Milli ELSE p

\* type ids: 34 and 35 are tradable, 36 is named "... Blueprint" in the SDE
TradableTypeIDs == {34, 35}
BlueprintTypeIDs == {36}

\* SDE.Stations: station -> system; location 1000001 is a player structure
\* of system 2, known only through the orders placed there
Stations == [l \in {60001, 60003} |-> IF l = 60001 THEN 1 ELSE 3]

\* the line of systems 1 - 2 - 3 (further systems are isolated), all high-sec
ScanUniverseAdj ==
    [s \in Systems |-> IF s = 1 THEN <<2>>
                       ELSE IF s = 2 THEN <<1, 3>>
                       ELSE IF s = 3 THEN <<2>>
                       ELSE <<>>]
ScanUniverseSecurity == [s \in Systems |-> 9]

MarketOrder(typeID, price, volumeRemain, locationID, systemID) ==
    [TypeID |-> typeID, Price |-> price, VolumeRemain |-> volumeRemain,
     LocationID |-> locationID, SystemID |-> systemID]

\* what fetchOrders(buyRegions, "sell", buySystems) can return
SellOrderSets ==
    {<<>>,
     <<MarketOrder(34, 60, 10, 60001, 1)>>,
     <<MarketOrder(34, 60, 10, 60001, 1), MarketOrder(35, 40, 2, 1000001, 2)>>,
     <<MarketOrder(34, 60, 10, 60001, 1), MarketOrder(35, 40, 0, 1000001, 2)>>}

\* what fetchOrders(sellRegions, "buy", sellSystems) can return
BuyOrderSets ==
    {<<>>,
     <<MarketOrder(34, 60, 3, 60001, 1)>>,
     <<MarketOrder(34, 50, 2, 60001, 1), MarketOrder(34, 60, 2, 60001, 1),
       MarketOrder(35, 40, 1, 60001, 1)>>}

\* the market history of the primary region: type -> VWAP and daily volume;
\* a type without an entry has no history
HistorySets ==
    {EmptyMap,
     MapPut(EmptyMap, 34, [VWAP |-> 70, DailyVolume |-> 10]),
     MapPut(MapPut(EmptyMap, 34, [VWAP |-> 70, DailyVolume |-> 10]),
            35, [VWAP |-> 200, DailyVolume |-> 0]),
     MapPut(MapPut(EmptyMap, 34, [VWAP |-> 70, DailyVolume |-> 10]),
            35, [VWAP |-> 200, DailyVolume |-> 5]),
     MapPut(MapPut(EmptyMap, 34, [VWAP |-> 70, DailyVolume |-> 10]),
            35, [VWAP |-> 100, DailyVolume |-> 5])}

ContractItem(typeID, quantity, isIncluded, isBlueprintCopy) ==
    [TypeID |-> typeID, Quantity |-> quantity, IsIncluded |-> isIncluded,
     IsBlueprintCopy |-> isBlueprintCopy]

PublicContract(id, type, expired, price, locationID) ==
    [ContractID |-> id, Type |-> type, Expired |-> expired, Price |-> price,
     StartLocationID |-> locationID]

\* the public contracts of the regions, each with the items
\* FetchContractItemsBatch returns for it
ContractPool ==
    {[contract |-> PublicContract(1, "item_exchange", FALSE, 100, 60001),
      items |-> <<ContractItem(34, 2, TRUE, FALSE)>>],
     [contract |-> PublicContract(2, "item_exchange", FALSE, 200, 60001),
      items |-> <<ContractItem(34, 2, TRUE, FALSE), ContractItem(34, 2, TRUE, FALSE)>>],
     [contract |-> PublicContract(3, "item_exchange", FALSE, 50, 60001),
      items |-> <<ContractItem(34, 1, TRUE, FALSE), ContractItem(35, 1, TRUE, FALSE)>>],
     [contract |-> PublicContract(4, "item_exchange", FALSE, 100, 1000001),
      items |-> <<ContractItem(34, 2, TRUE, FALSE), ContractItem(36, 1, TRUE, FALSE),
                  ContractItem(35, 1, TRUE, TRUE), ContractItem(35, 5, FALSE, FALSE)>>],
     [contract |-> PublicContract(5, "auction", FALSE, 100, 60001),
      items |-> <<ContractItem(34, 2, TRUE, FALSE)>>],
     [contract |-> PublicContract(6, "item_exchange", TRUE, 100, 60003),
      items |-> <<>>],
     [contract |-> PublicContract(7, "item_exchange", FALSE, 100, 60001),
      items |-> <<ContractItem(35, 2, TRUE, FALSE)>>]}

\* the contract lists: up to MaxContracts contracts of the pool, by id
ContractLists ==
    {SetToSortedSeq(ids) : ids \in {x \in SUBSET (1..7) : Cardinality(x) <= MaxContracts}}

PoolEntry(id) == CHOOSE e \in ContractPool : e.contract.ContractID = id

\* the parameter sets: both modes, three margin floors and three priced
\* ratios (0 is unset), and two sets with fees and the default price floor
ScanParams(instant, minMargin, minPricedRatio, minContractPrice, salesTax, brokerFee) ==
    [ContractInstantLiquidation |-> instant, MinMargin |-> minMargin,
     MinPricedRatio |-> minPricedRatio, MinContractPrice |-> minContractPrice,
     MaxContractMargin |-> 0, SalesTaxPercent |-> salesTax,
     BrokerFeePercent |-> brokerFee, RequireHistory |-> FALSE,
     ContractHoldDays |-> 0, ContractTargetConfidence |-> 0,
     CurrentSystemID |-> 1, BuyRadius |-> 1, SellRadius |-> 1,
     MinRouteSecurity |-> 0]

ParamSets ==
    {ScanParams(i, m, r, 1, 0, 0) : i \in BOOLEAN, m \in {0, 15, 25}, r \in {0, 50, 100}}
    \cup {ScanParams(FALSE, 0, 0, 0, 0, 0), ScanParams(TRUE, 0, 0, 1, 10, 5)}
    \cup {[ScanParams(FALSE, 0, 50, 1, 0, 0) EXCEPT !.RequireHistory = TRUE],
          [ScanParams(TRUE, 0, 0, 1, 0, 0) EXCEPT !.MaxContractMargin = 15],
          [ScanParams(FALSE, 0, 0, 1, 0, 0) EXCEPT !.MaxContractMargin = 150],
          [ScanParams(FALSE, 0, 0, 1, 0, 0) EXCEPT !.ContractHoldDays = 1],
          [ScanParams(FALSE, 0, 0, 1, 0, 0) EXCEPT !.ContractHoldDays = 1,
                                                   !.ContractTargetConfidence = 50]}

\* buySystems and sellSystems: the systems within the radius of the current one
SystemsInRadius(params, radius) ==
    IF params.MinRouteSecurity > 0
    THEN SystemsWithinRadiusMinSecurity(params.CurrentSystemID, radius,
                                        params.MinRouteSecurity)
    ELSE SystemsWithinRadius(params.CurrentSystemID, radius)

\* the buy orders of the sell radius are fetched in instant-liquidation mode only
LiquidationOrders(params) ==
    IF params.ContractInstantLiquidation THEN buyOrdersForLiquidation ELSE <<>>

\* marketLocationSystems: the first system seen for every order location
RECURSIVE LocationSystems(_, _, _)
LocationSystems(m, orders, i) ==
    IF i > Len(orders) THEN m
    ELSE LET o == orders[i]
         IN IF o.LocationID = 0 \/ o.SystemID = 0 \/ HasKey(m, o.LocationID)
            THEN LocationSystems(m, orders, i + 1)
            ELSE LocationSystems(MapPut(m, o.LocationID, o.SystemID), orders, i + 1)

marketLocationSystems(params) ==
    LocationSystems(LocationSystems(EmptyMap, sellOrders, 1), LiquidationOrders(params), 1)

locationToSystem(locationID, locationSystems) ==
    IF locationID \in DOMAIN Stations THEN Stations[locationID]
    ELSE IF HasKey(locationSystems, locationID) THEN locationSystems[locationID]
    ELSE 0

buyOrdersByType(params, typeID) ==
    SelectSeq(LiquidationOrders(params), LAMBDA o : o.TypeID = typeID)

SellOrdersOfType(typeID) == SelectSeq(sellOrders, LAMBDA o : o.TypeID = typeID)

RECURSIVE SumVolumeRemain(_, _)
SumVolumeRemain(orders, i) ==
    IF i > Len(orders) THEN 0
    ELSE orders[i].VolumeRemain + SumVolumeRemain(orders, i + 1)

\* Walking a buy book from its highest price down, for a quantity to sell:
\* what is filled and what it pays (whole ISK); left holds the orders not
\* consumed yet.
RECURSIVE WalkBook(_, _, _)
WalkBook(book, remaining, left) ==
    IF remaining = 0 \/ left = {} THEN [filled |-> 0, value |-> 0]
    ELSE LET best == CHOOSE i \in left : \A j \in left :
                         \/ book[i].Price > book[j].Price
                         \/ (book[i].Price = book[j].Price /\ i <= j)
             take == Min(remaining, book[best].VolumeRemain)
             rest == WalkBook(book, remaining - take, left \ {best})
         IN [filled |-> take + rest.filled,
             value |-> take * book[best].Price + rest.value]

\* can_fill iff the quantity is at most the sum of the sizes; the expected
\* price is the volume-weighted mean of the consumed levels (thousandths)
ComputeExecutionPlan(book, quantity) ==
    LET w == WalkBook(book, quantity, 1..Len(book))
    IN [CanFill |-> w.filled = quantity,
        ExpectedPrice |-> IF w.filled > 0 THEN (w.value * Milli) \div w.filled ELSE 0]

\* the candidates: item_exchange, not expired, at or above the price floor,
\* at a known location inside the buy radius
IsCandidate(c, params) ==
    LET sysID == locationToSystem(c.StartLocationID, marketLocationSystems(params))
    IN /\ c.Type = "item_exchange"
       /\ ~c.Expired
       /\ ~(c.Price < getContractFilters(params).minPrice)
       /\ sysID # 0
       /\ HasKey(SystemsInRadius(params, params.BuyRadius), sysID)

Candidates(params) == SelectSeq(allContracts, LAMBDA c : IsCandidate(c, params))

ItemsOf(contractID) ==
    IF HasKey(contractItems, contractID) THEN contractItems[contractID] ELSE <<>>

\* typeIDsNeedHistory: the types of the included, non-copy items of the
\* candidates that have price data
NeedsHistory(typeID, params) ==
    /\ Len(SellOrdersOfType(typeID)) > 0
    /\ With(Candidates(params), LAMBDA candidates :
         \E i \in 1..Len(candidates) :
           LET items == ItemsOf(candidates[i].ContractID)
           IN \E k \in 1..Len(items) :
                  /\ items[k].TypeID = typeID
                  /\ items[k].IsIncluded
                  /\ ~items[k].IsBlueprintCopy)

\* priceData[typeID] for a type with sell orders: the cheapest ask (raised by
\* half when the book is thin), the book's depth, and in estimate mode the
\* history of the type when it was fetched; money in thousandths
priceDataOf(typeID, params) ==
    LET orders == SellOrdersOfType(typeID)
        cheapest == CHOOSE p \in {orders[i].Price : i \in 1..Len(orders)} :
                        \A i \in 1..Len(orders) : p <= orders[i].Price
        total == SumVolumeRemain(orders, 1)
        fetched == /\ ~params.ContractInstantLiquidation
                   /\ NeedsHistory(typeID, params)
                   /\ HasKey(history, typeID)
    IN [MinSellPrice |-> IF total < MinSellOrderVolume
                         THEN (cheapest * Milli * 15) \div 10
                         ELSE cheapest * Milli,
        TotalSellVol |-> total,
        SellOrderCnt |-> Len(orders),
        VWAP |-> IF fetched THEN history[typeID].VWAP * Milli ELSE 0,
        DailyVolume |-> IF fetched THEN history[typeID].DailyVolume ELSE 0,
        HasHistory |-> fetched]

\* the unit price of an estimate-mode item (thousandths): ok is false when
\* the item is skipped for want of history
EstimateUsePrice(pd, params) ==
    IF pd.HasHistory /\ pd.VWAP > 0
    THEN IF pd.MinSellPrice * 2 < pd.VWAP
         THEN [ok |-> TRUE, highDeviation |-> 1,
               usePrice |-> Min((pd.VWAP * 7) \div 10, pd.MinSellPrice * 2)]
         ELSE [ok |-> TRUE, highDeviation |-> 0,
               usePrice |-> Min(pd.VWAP, pd.MinSellPrice)]
    ELSE IF params.RequireHistory
         THEN [ok |-> FALSE, highDeviation |-> 0, usePrice |-> 0]
         ELSE [ok |-> TRUE, highDeviation |-> 0, usePrice |-> pd.MinSellPrice]

NewTally ==
    [marketValue |-> 0, itemCount |-> 0, pricedCount |-> 0, totalTypes |-> 0,
     lowVolumeItems |-> 0, highDeviationItems |-> 0, fullLiquidationProb |-> Milli,
     maxFillDays |-> 0, expectedGrossByFill |-> 0, hasBPO |-> FALSE]

\* one pass of the item loop in instant-liquidation mode: the item line is
\* planned against the whole buy book of its type
InstantItem(t, item, params) ==
    With(buyOrdersByType(params, item.TypeID), LAMBDA book :
      IF Len(book) = 0 THEN t
      ELSE With(ComputeExecutionPlan(book, item.Quantity), LAMBDA plan :
             IF ~plan.CanFill \/ plan.ExpectedPrice <= 0 THEN t
             ELSE [t EXCEPT !.pricedCount = @ + 1,
                            !.marketValue = @ + plan.ExpectedPrice * item.Quantity,
                            !.itemCount = @ + item.Quantity]))

\* an estimate-mode item with price data pd, priced at u
PricedEstimateItem(t, item, pd, u, holdDays) ==
    LET fillDays == estimateFillDays(item.Quantity, effectiveDailyVolume(pd))
        days == IF fillDays.inf THEN holdDays * 10 * Milli
                ELSE (fillDays.num * Milli) \div fillDays.den
    IN With(fillProbabilityWithinDays(fillDays, holdDays), LAMBDA itemFillProb :
        [t EXCEPT
            !.highDeviationItems = @ + u.highDeviation,
            !.lowVolumeItems =
                IF pd.DailyVolume < MinDailyVolumeForContract THEN @ + 1 ELSE @,
            !.pricedCount = @ + 1,
            !.marketValue = @ + u.usePrice * item.Quantity,
            !.itemCount = @ + item.Quantity,
            !.fullLiquidationProb = (@ * itemFillProb) \div Milli,
            !.maxFillDays = IF days > @ THEN days ELSE @,
            !.expectedGrossByFill =
                @ + (u.usePrice * item.Quantity * itemFillProb) \div Milli])

\* one pass of the item loop in estimate mode
EstimateItem(t, item, params) ==
    IF Len(SellOrdersOfType(item.TypeID)) = 0 THEN t
    ELSE With(priceDataOf(item.TypeID, params), LAMBDA pd :
           IF pd.MinSellPrice = 0 THEN t
           ELSE With(EstimateUsePrice(pd, params), LAMBDA u :
                  IF ~u.ok THEN t
                  ELSE PricedEstimateItem(t, item, pd, u, contractHoldDays(params))))

\* the item loop from item i on
RECURSIVE ItemLoop(_, _, _, _)
ItemLoop(t, items, i, params) ==
    IF i > Len(items) THEN t
    ELSE LET item == items[i]
             next ==
                 IF ~item.IsIncluded THEN t
                 ELSE IF item.IsBlueprintCopy THEN t
                 ELSE IF item.TypeID \in BlueprintTypeIDs THEN [t EXCEPT !.hasBPO = TRUE]
                 ELSE LET counted == [t EXCEPT !.totalTypes = @ + 1]
                      IN IF params.ContractInstantLiquidation
                         THEN InstantItem(counted, item, params)
                         ELSE EstimateItem(counted, item, params)
         IN With(next, LAMBDA tally : ItemLoop(tally, items, i + 1, params))

\* mutant: the priced ratio is compared the wrong way round
PassesRatios_RatioReversed(t, params) ==
    /\ ~(t.hasBPO /\ t.totalTypes = 0)
    /\ ~(t.totalTypes = 0 \/ t.pricedCount = 0)
    /\ ~(t.pricedCount * 100 > getContractFilters(params).minPricedRatio * t.totalTypes)
    /\ ~(params.ContractInstantLiquidation /\ t.pricedCount < t.totalTypes)
    /\ ~(t.lowVolumeItems * 2 > t.pricedCount)
    /\ ~(t.highDeviationItems * 10 > 3 * t.pricedCount)
    /\ ~(t.marketValue <= 0)

\* the checks on a tallied contract up to the realized margin
PassesRatios(t, params) ==
    /\ ~(t.hasBPO /\ t.totalTypes = 0)
    /\ ~(t.totalTypes = 0 \/ t.pricedCount = 0)
    /\ ~(t.pricedCount * 100 < getContractFilters(params).minPricedRatio * t.totalTypes)
    /\ ~(params.ContractInstantLiquidation /\ t.pricedCount < t.totalTypes)
    /\ ~(t.lowVolumeItems * 2 > t.pricedCount)
    /\ ~(t.highDeviationItems * 10 > 3 * t.pricedCount)
    /\ ~(t.marketValue <= 0)

\* the body of the contract loop: accepted, and the ContractResult (money in
\* thousandths of an ISK but Price, margins in thousandths of a percent)
ValueContract(contract, items, t, jumps, params) ==
    LET sellValueMult == contractSellValueMultiplier(params)
        holdDays == contractHoldDays(params)
        price == contract.Price * Milli
        effectiveValue == (t.marketValue * sellValueMult) \div 100
        profit == effectiveValue - price
        instant == params.ContractInstantLiquidation
        sellConfidencePct == IF instant THEN 100 * Milli ELSE t.fullLiquidationProb * 100
        conservativeGross ==
            (t.expectedGrossByFill * (100 - ContractConservativePriceHaircut)) \div 100
        conservativeValue ==
            IF instant THEN effectiveValue ELSE (conservativeGross * sellValueMult) \div 100
        carryCost ==
            IF instant THEN 0 ELSE contract.Price * ContractDailyCarryRate * holdDays
        expectedProfit == IF instant THEN profit ELSE conservativeValue - price - carryCost
    IN [accepted |->
            /\ Len(items) > 0
            /\ PassesRatios(t, params)
            /\ ~(profit <= 0)
            /\ ~(profit * 100 > getContractFilters(params).maxMargin * price)
            /\ instant \/ ~(sellConfidencePct < contractTargetConfidence(params) * Milli)
            /\ instant \/ ~(expectedProfit <= 0)
            /\ ~(expectedProfit * 100 < params.MinMargin * price),
        result |->
            [ContractID |-> contract.ContractID,
             Price |-> contract.Price,
             MarketValue |-> t.marketValue,
             Profit |-> profit,
             MarginPercent |-> (profit * 100) \div contract.Price,
             ExpectedProfit |-> expectedProfit,
             ExpectedMarginPercent |-> (expectedProfit * 100) \div contract.Price,
             SellConfidence |-> sellConfidencePct,
             EstLiquidationDays |-> IF instant THEN 0 ELSE t.maxFillDays,
             ConservativeValue |-> conservativeValue,
             CarryCost |-> carryCost,
             ItemCount |-> t.itemCount,
             Jumps |-> jumps,
             ProfitPerJump |-> IF jumps > 0 THEN profit \div jumps ELSE 0]]

EvaluateContract(contract, params) ==
    With(ItemsOf(contract.ContractID), LAMBDA items :
      With(ItemLoop(NewTally, items, 1, params), LAMBDA t :
        With(SystemsInRadius(params, params.BuyRadius)[
                 locationToSystem(contract.StartLocationID, marketLocationSystems(params))],
             LAMBDA jumps : ValueContract(contract, items, t, jumps, params))))

\* the results in the order of the candidates
ContractLoop(candidates, params) ==
    With([i \in 1..Len(candidates) |-> EvaluateContract(candidates[i], params)],
         LAMBDA evaluated :
           LET accepted == SelectSeq(evaluated, LAMBDA e : e.accepted)
           IN [i \in 1..Len(accepted) |-> accepted[i].result])

\* the sort key: the expected profit, or the profit when that is 0
RankKey(r) == IF r.ExpectedProfit = 0 THEN r.Profit ELSE r.ExpectedProfit

\* mutant: the comparison of the sort is turned round
SortOutcomes_Ascending(results) ==
    LET n == Len(results)
        perms == {p \in [1..n -> 1..n] : \A i, j \in 1..n : i # j => p[i] # p[j]}
    IN {s \in {[i \in 1..n |-> results[p[i]]] : p \in perms} :
            \A i \in 1..n, j \in 1..n : i < j => RankKey(s[i]) <= RankKey(s[j])}

\* sort.Slice is not stable: every order of the results with non-increasing
\* keys is an outcome
SortOutcomes(results) ==
    LET n == Len(results)
        perms == {p \in [1..n -> 1..n] : \A i, j \in 1..n : i # j => p[i] # p[j]}
    IN {s \in {[i \in 1..n |-> results[p[i]]] : p \in perms} :
            \A i \in 1..n, j \in 1..n : i < j => RankKey(s[i]) >= RankKey(s[j])}

Truncate(results) ==
    IF Len(results) > MaxUnlimitedResults
    THEN SubSeq(results, 1, MaxUnlimitedResults)
    ELSE results

\* the lists ScanContracts can return for the parameters on the present market
ScanContractsOutcomes(params) ==
    With(Candidates(params), LAMBDA candidates :
      With(ContractLoop(candidates, params), LAMBDA results :
        {Truncate(s) : s \in SortOutcomes(results)}))

\* one progress message: its phase and the number it carries (0 when the
\* count is not modelled)
Progress(phase, n) == [phase |-> phase, n |-> n]

\* the callback of FetchContractItemsBatch: one message per contract fetched
FetchContractItemsBatchProgress(total) ==
    [done \in 1..total |-> Progress("Fetching contract items", done)]

\* mutant: the scan of an empty candidate list also reports what it found
ScanContractsProgress_FoundOnEmpty(params, ret) ==
    <<Progress("Finding systems within radius", 0),
      Progress("Fetching market orders + contracts", 0),
      Progress("Evaluating contracts", 0),
      Progress("Found profitable contracts", Len(ret))>>

\* mutant: the number of contracts found is taken before the list is capped
ScanContractsProgress_FoundBeforeCap(params, ret) ==
    With(Candidates(params), LAMBDA candidates :
      LET needing == {t \in TradableTypeIDs \cup BlueprintTypeIDs : NeedsHistory(t, params)}
          phases == <<Progress("Finding systems within radius", 0),
                      Progress("Fetching market orders + contracts", 0),
                      Progress("Evaluating contracts", Len(candidates))>>
      IN IF Len(candidates) = 0 THEN phases
         ELSE phases
              \o FetchContractItemsBatchProgress(Len(candidates))
              \o (IF ~params.ContractInstantLiquidation /\ needing # {}
                  THEN <<Progress("Fetching market history", Cardinality(needing))>>
                  ELSE <<>>)
              \o <<Progress("Found profitable contracts",
                            Len(ContractLoop(candidates, params)))>>)

\* the progress messages of one ScanContracts call, in order: the three
\* phases before the candidates are examined, and, unless there is no
\* candidate, the item fetch, the history fetch (estimate mode, when a type
\* needs it) and the number of contracts found
ScanContractsProgress(params, ret) ==
    With(Candidates(params), LAMBDA candidates :
      LET needing == {t \in TradableTypeIDs \cup BlueprintTypeIDs : NeedsHistory(t, params)}
          phases == <<Progress("Finding systems within radius", 0),
                      Progress("Fetching market orders + contracts", 0),
                      Progress("Evaluating contracts", Len(candidates))>>
      IN IF Len(candidates) = 0 THEN phases
         ELSE phases
              \o FetchContractItemsBatchProgress(Len(candidates))
              \o (IF ~params.ContractInstantLiquidation /\ needing # {}
                  THEN <<Progress("Fetching market history", Cardinality(needing))>>
                  ELSE <<>>)
              \o <<Progress("Found profitable contracts", Len(ret))>>)

ContractsInit ==
    /\ sellOrders \in SellOrderSets
    /\ buyOrdersForLiquidation \in BuyOrderSets
    /\ history \in HistorySets
    /\ \E ids \in ContractLists :
           /\ allContracts = [i \in 1..Len(ids) |-> PoolEntry(ids[i]).contract]
           /\ contractItems = [id \in {ids[i] : i \in 1..Len(ids)} |-> PoolEntry(id).items]
    /\ cPrev = NoCall
    /\ cCall = NoCall

\* the two parameter sets differ in the named field only
DifferOnlyIn(p, q, field) ==
    /\ p[field] # q[field]
    /\ \A f \in DOMAIN p : f # field => p[f] = q[f]

\* One scan of the market. The scan does not change the market, so two scans
\* are enough to compare two parameter sets: the one before the last is kept,
\* and the second scan is the first with one parameter changed.
ScanContracts(params) ==
    /\ cPrev = NoCall
    /\ cCall # NoCall => \E f \in DOMAIN params : DifferOnlyIn(cCall.params, params, f)
    /\ \E ret \in ScanContractsOutcomes(params) :
           cCall' = [op |-> "ScanContracts", params |-> params, ret |-> ret,
                     err |-> NilError,
                     progress |-> ScanContractsProgress(params, ret)]
    /\ cPrev' = cCall
    /\ UNCHANGED <<sellOrders, buyOrdersForLiquidation, history, allContracts,
                   contractItems, notContractVars>>

\* the markets with orders and history for both types, and the lists of up
\* to MaxRanked contracts: more contracts than the cap on the returned list
MaxRanked == 3

RankingInit ==
    /\ sellOrders \in {s \in SellOrderSets : Len(s) = 2}
    /\ buyOrdersForLiquidation \in {b \in BuyOrderSets : Len(b) = 3}
    /\ history \in {h \in HistorySets : DOMAIN h = TradableTypeIDs}
    /\ \E x \in {y \in SUBSET (1..7) : Cardinality(y) <= MaxRanked} :
           /\ allContracts = [i \in 1..Cardinality(x) |-> PoolEntry(SetToSortedSeq(x)[i]).contract]
           /\ contractItems = [id \in x |-> PoolEntry(id).items]
    /\ cPrev = NoCall
    /\ cCall = NoCall

ContractsNext == \E params \in ParamSets : ScanContracts(params)

\* systems 1 and 2 are linked, system 3 and every further one is isolated
IsolatedUniverseAdj ==
    [s \in Systems |-> IF s = 1 THEN <<2>> ELSE IF s = 2 THEN <<1>> ELSE <<>>]

\* the market of the isolated system 3: no order or one at station 60003, no
\* contract or up to two at that station
RegionSellOrderSets == {<<>>, <<MarketOrder(34, 60, 10, 60003, 3)>>}
RegionBuyOrderSets == {<<>>, <<MarketOrder(34, 60, 3, 60003, 3)>>}

RegionContractPool ==
    {[contract |-> PublicContract(8, "item_exchange", FALSE, 100, 60003),
      items |-> <<ContractItem(34, 2, TRUE, FALSE)>>],
     [contract |-> PublicContract(9, "item_exchange", FALSE, 200, 60003),
      items |-> <<ContractItem(34, 2, TRUE, FALSE)>>]}

RegionEntry(id) == CHOOSE e \in RegionContractPool : e.contract.ContractID = id

EmptyRegionInit ==
    /\ sellOrders \in RegionSellOrderSets
    /\ buyOrdersForLiquidation \in RegionBuyOrderSets
    /\ history \in {EmptyMap, MapPut(EmptyMap, 34, [VWAP |-> 70, DailyVolume |-> 10])}
    /\ \E x \in SUBSET {8, 9} :
           /\ allContracts = [i \in 1..Cardinality(x) |-> RegionEntry(SetToSortedSeq(x)[i]).contract]
           /\ contractItems = [id \in x |-> RegionEntry(id).items]
    /\ cPrev = NoCall
    /\ cCall = NoCall

\* scans started at the isolated system 3 with a buy radius of 0 or 1
EmptyRegionParamSets ==
    {[ScanParams(i, m, 0, 1, 0, 0) EXCEPT !.CurrentSystemID = 3, !.BuyRadius = r] :
        i \in BOOLEAN, m \in {0, 15}, r \in {0, 1}}

EmptyRegionNext == \E params \in EmptyRegionParamSets : ScanContracts(params)

\* the fee percentages the multiplier is taken for, and the parameter sets
\* that hold them
FeePercents == {0, 3, 8, 10, 40, 60, 100, 120}

FeeParamSets ==
    {ScanParams(i, 0, 0, 0, t, b) : i \in BOOLEAN, t \in FeePercents, b \in FeePercents}

\* a call of contractSellValueMultiplier on its own, as the tests make it
CallContractSellValueMultiplier(params) ==
    /\ cCall' = [op |-> "contractSellValueMultiplier", params |-> params,
                 ret |-> contractSellValueMultiplier(params)]
    /\ UNCHANGED <<sellOrders, buyOrdersForLiquidation, history, allContracts,
                   contractItems, cPrev, notContractVars>>

FeesNext == \E params \in FeeParamSets : CallContractSellValueMultiplier(params)

-----------------------------------------------------------------------------
(* ScanContracts, goroutine by goroutine: the parallel fetch of the orders *)
(* and of the contracts of every buy region, and what the scan does with   *)
(* what was fetched                                                        *)

MaxFanInRadius == 2

\* SDE.Universe.SystemRegion: every system is in a region of its own
SystemRegion == [s \in Systems |-> 10 * s]

RegionsInSet(systems) ==
    {SystemRegion[sysID] : sysID \in (DOMAIN systems) \cap (DOMAIN SystemRegion)}

\* the contracts of ESI, with their items: those of both pools
FanInPool == ContractPool \cup RegionContractPool
FanInEntry(id) == CHOOSE e \in FanInPool : e.contract.ContractID = id

\* the region of a contract: that of the system of its station; the player
\* structure is in system 2
ContractRegion(c) ==
    IF c.StartLocationID \in DOMAIN Stations
    THEN SystemRegion[Stations[c.StartLocationID]]
    ELSE SystemRegion[2]

\* what FetchRegionContractsCached returns for a region when it succeeds:
\* the contracts of the region, by id
RegionContracts(regionID) ==
    LET ids == {id \in fMarket.contracts : ContractRegion(FanInEntry(id).contract) = regionID}
        sorted == SetToSortedSeq(ids)
    IN [i \in 1..Len(sorted) |-> FanInEntry(sorted[i]).contract]

\* the markets: orders at the station of system 1 and at the structure of
\* system 2, and any of the contracts 1 (system 1), 4 (system 2), 8 (system 3)
FanInMarkets ==
    {[sell |-> <<MarketOrder(34, 60, 10, 60001, 1), MarketOrder(35, 40, 2, 1000001, 2)>>,
      buy |-> <<MarketOrder(34, 60, 3, 60001, 1)>>,
      contracts |-> ids] : ids \in SUBSET {1, 4, 8}}

FanInParamSets ==
    {[ScanParams(i, 0, 0, 1, 0, 0) EXCEPT !.BuyRadius = r] :
        i \in BOOLEAN, r \in 0..MaxFanInRadius}

BuyRegions(params) == RegionsInSet(SystemsInRadius(params, params.BuyRadius))

FanInInit ==
    /\ fPc = "idle"
    /\ fParams \in FanInParamSets
    /\ fMarket \in FanInMarkets
    /\ wg = 0
    /\ contractsWg = 0
    /\ contractsMu = 0
    /\ ordersPc = [sell |-> "none", buy |-> "none"]
    /\ contractsPc = "none"
    /\ regionPc = EmptyMap
    /\ fLog = {}
    /\ fProgress = <<>>
    /\ fCancelled = FALSE
    /\ sellOrders = <<>>
    /\ buyOrdersForLiquidation = <<>>
    /\ history = MapPut(EmptyMap, 34, [VWAP |-> 70, DailyVolume |-> 10])
    /\ allContracts = <<>>
    /\ contractItems = [id \in fMarket.contracts |-> FanInEntry(id).items]
    /\ cPrev = NoCall
    /\ cCall = NoCall

FanInAtRest ==
    /\ fPc = "idle"
    /\ fParams = NoCall
    /\ fMarket = NoCall
    /\ wg = 0
    /\ contractsWg = 0
    /\ contractsMu = 0
    /\ ordersPc = [sell |-> "none", buy |-> "none"]
    /\ contractsPc = "none"
    /\ regionPc = EmptyMap
    /\ fLog = {}
    /\ fProgress = <<>>
    /\ fCancelled = FALSE

\* ScanContracts up to wg.Wait: the two progress messages, wg.Add and the go
\* statements. A second run takes the parameters of the first.
StartScan ==
    /\ fPc = "idle"
    /\ cPrev = NoCall
    /\ fPc' = "wait"
    /\ fProgress' = SubSeq(ScanContractsProgress(fParams, <<>>), 1, 2)
    /\ sellOrders' = <<>>
    /\ buyOrdersForLiquidation' = <<>>
    /\ allContracts' = <<>>
    /\ contractsMu' = 0
    /\ contractsWg' = 0
    /\ wg' = IF fParams.ContractInstantLiquidation THEN 3 ELSE 2
    /\ ordersPc' = [sell |-> "run",
                    buy |-> IF fParams.ContractInstantLiquidation THEN "run" ELSE "none"]
    /\ contractsPc' = "spawn"
    /\ regionPc' = [rid \in BuyRegions(fParams) |-> "new"]
    /\ fLog' = {}
    /\ fCancelled' = FALSE
    /\ UNCHANGED <<fParams, fMarket, history, contractItems, cPrev, cCall,
                   graphVars, alertVars, resultVars, portfolioVars, historyVars>>

\* go func() { defer wg.Done(); sellOrders = s.fetchOrders(buyRegions, "sell", buySystems) }()
FetchSellOrders ==
    /\ ordersPc.sell = "run"
    /\ sellOrders' = fMarket.sell
    /\ ordersPc' = [ordersPc EXCEPT !.sell = "done"]
    /\ wg' = wg - 1
    /\ UNCHANGED <<fPc, fParams, fMarket, contractsWg, contractsMu, contractsPc, regionPc,
                   fLog, fProgress, fCancelled, buyOrdersForLiquidation, history,
                   allContracts, contractItems, cPrev, cCall,
                   graphVars, alertVars, resultVars, portfolioVars, historyVars>>

\* the goroutine started when contractInstant is set
FetchBuyOrders ==
    /\ ordersPc.buy = "run"
    /\ buyOrdersForLiquidation' = fMarket.buy
    /\ ordersPc' = [ordersPc EXCEPT !.buy = "done"]
    /\ wg' = wg - 1
    /\ UNCHANGED <<fPc, fParams, fMarket, contractsWg, contractsMu, contractsPc, regionPc,
                   fLog, fProgress, fCancelled, sellOrders, history,
                   allContracts, contractItems, cPrev, cCall,
                   graphVars, alertVars, resultVars, portfolioVars, historyVars>>

\* the contracts goroutine, one iteration of for rid := range buyRegions (a
\* map: any order): contractsWg.Add(1) and the go statement
SpawnRegion(rid) ==
    /\ contractsPc = "spawn"
    /\ HasKey(regionPc, rid)
    /\ regionPc[rid] = "new"
    /\ contractsWg' = contractsWg + 1
    /\ regionPc' = [regionPc EXCEPT ![rid] = "fetch"]
    /\ UNCHANGED <<fPc, fParams, fMarket, wg, contractsMu, ordersPc, contractsPc, fLog,
                   fProgress, fCancelled, contractVars,
                   graphVars, alertVars, resultVars, portfolioVars, historyVars>>

\* mutant: the contracts goroutine does not wait for the region goroutines
ContractsWait_NoWait ==
    /\ contractsPc = "spawn"
    /\ \A rid \in DOMAIN regionPc : regionPc[rid] # "new"
    /\ contractsPc' = "done"
    /\ wg' = wg - 1
    /\ UNCHANGED <<fPc, fParams, fMarket, contractsWg, contractsMu, ordersPc, regionPc,
                   fLog, fProgress, fCancelled, contractVars,
                   graphVars, alertVars, resultVars, portfolioVars, historyVars>>

\* the contracts goroutine after its loop: contractsWg.Wait() returns, then
\* the deferred wg.Done()
ContractsWait ==
    /\ contractsPc = "spawn"
    /\ \A rid \in DOMAIN regionPc : regionPc[rid] # "new"
    /\ contractsWg = 0
    /\ contractsPc' = "done"
    /\ wg' = wg - 1
    /\ UNCHANGED <<fPc, fParams, fMarket, contractsWg, contractsMu, ordersPc, regionPc,
                   fLog, fProgress, fCancelled, contractVars,
                   graphVars, alertVars, resultVars, portfolioVars, historyVars>>

\* a region goroutine: FetchRegionContractsCached succeeds, or fails: the
\* failure is logged and the goroutine returns
FetchRegionContractsCached(rid, ok) ==
    /\ HasKey(regionPc, rid)
    /\ regionPc[rid] = "fetch"
    /\ IF ok
       THEN /\ regionPc' = [regionPc EXCEPT ![rid] = "lock"]
            /\ UNCHANGED <<fLog, contractsWg>>
       ELSE /\ regionPc' = [regionPc EXCEPT ![rid] = "failed"]
            /\ fLog' = fLog \cup {rid}
            /\ contractsWg' = contractsWg - 1
    /\ UNCHANGED <<fPc, fParams, fMarket, wg, contractsMu, ordersPc, contractsPc,
                   fProgress, fCancelled, contractVars,
                   graphVars, alertVars, resultVars, portfolioVars, historyVars>>

\* contractsMu.Lock()
LockContracts(rid) ==
    /\ HasKey(regionPc, rid)
    /\ regionPc[rid] = "lock"
    /\ contractsMu = 0
    /\ contractsMu' = rid
    /\ regionPc' = [regionPc EXCEPT ![rid] = "append"]
    /\ UNCHANGED <<fPc, fParams, fMarket, wg, contractsWg, ordersPc, contractsPc, fLog,
                   fProgress, fCancelled, contractVars,
                   graphVars, alertVars, resultVars, portfolioVars, historyVars>>

\* allContracts = append(allContracts, contracts...); contractsMu.Unlock();
\* and the deferred contractsWg.Done()
AppendContracts(rid) ==
    /\ HasKey(regionPc, rid)
    /\ regionPc[rid] = "append"
    /\ allContracts' = allContracts \o RegionContracts(rid)
    /\ contractsMu' = 0
    /\ contractsWg' = contractsWg - 1
    /\ regionPc' = [regionPc EXCEPT ![rid] = "done"]
    /\ UNCHANGED <<fPc, fParams, fMarket, wg, ordersPc, contractsPc, fLog, fProgress,
                   fCancelled, sellOrders, buyOrdersForLiquidation, history,
                   contractItems, cPrev, cCall,
                   graphVars, alertVars, resultVars, portfolioVars, historyVars>>

\* wg.Wait() returns and the scan runs to its return on what was fetched
FinishScan ==
    /\ fPc = "wait"
    /\ wg = 0
    /\ \E ret \in ScanContractsOutcomes(fParams) :
           /\ fProgress' = ScanContractsProgress(fParams, ret)
           /\ cCall' = [op |-> "ScanContracts", params |-> fParams, ret |-> ret,
                        err |-> NilError, progress |-> fProgress',
                        failed |-> {rid \in DOMAIN regionPc : regionPc[rid] = "failed"},
                        cancelled |-> fCancelled]
    /\ cPrev' = cCall
    /\ fPc' = "idle"
    /\ UNCHANGED <<fParams, fMarket, wg, contractsWg, contractsMu, ordersPc, contractsPc,
                   regionPc, fLog, fCancelled, sellOrders, buyOrdersForLiquidation,
                   history, allContracts, contractItems,
                   graphVars, alertVars, resultVars, portfolioVars, historyVars>>

\* the caller gives the running scan up. ScanContracts(params, progress)
\* takes no context and no channel: nothing of the scan reads this.
CallerCancels ==
    /\ fPc = "wait"
    /\ ~fCancelled
    /\ fCancelled' = TRUE
    /\ UNCHANGED <<fPc, fParams, fMarket, wg, contractsWg, contractsMu, ordersPc,
                   contractsPc, regionPc, fLog, fProgress, contractVars,
                   graphVars, alertVars, resultVars, portfolioVars, historyVars>>

FanInNext ==
    \/ StartScan
    \/ FetchSellOrders
    \/ FetchBuyOrders
    \/ \E rid \in {SystemRegion[sysID] : sysID \in Systems} : SpawnRegion(rid)
    \/ ContractsWait
    \/ \E rid \in {SystemRegion[sysID] : sysID \in Systems}, ok \in BOOLEAN :
           FetchRegionContractsCached(rid, ok)
    \/ \E rid \in {SystemRegion[sysID] : sysID \in Systems} : LockContracts(rid)
    \/ \E rid \in {SystemRegion[sysID] : sysID \in Systems} : AppendContracts(rid)
    \/ FinishScan
    \/ CallerCancels

-----------------------------------------------------------------------------
(* fetchContractItemsHistory: the loop that starts one worker per type id  *)
(* behind a semaphore, and the workers                                     *)
(*                                                                         *)
(* The workers differ only in the type id they are started with. One type  *)
(* id with price data, any of them, is observed by itself; of the others   *)
(* the number at each stage is kept.                                       *)

\* the largest number of other type ids with price data passed in
MaxHistoryTypes == 32

\* sem := make(chan struct{}, 30)
SemCapacity == 30

\* the inputs: with and without a history store; no, one or MaxHistoryTypes
\* other type ids with price data; with and without a type id without
\* price data; with and without the observed type id
HistoryInputs ==
    {[store |-> st, priced |-> p, unpriced |-> u, observed |-> o] :
        st \in BOOLEAN, p \in {0, 1, MaxHistoryTypes}, u \in {0, 1}, o \in BOOLEAN}

NoWorkers == [sending |-> 0, running |-> 0, releasing |-> 0, done |-> 0]

HistoryInit ==
    /\ hInput \in HistoryInputs
    /\ hLoop = "start"
    /\ hUnvisited = [priced |-> hInput.priced, unpriced |-> hInput.unpriced]
    /\ hWorkers = NoWorkers
    /\ hTag = IF hInput.observed THEN "unvisited" ELSE "absent"
    /\ hTagRuns = 0
    /\ hTagHasHistory = FALSE
    /\ sem = 0
    /\ historyWg = 0

HistoryAtRest ==
    /\ hInput = NoCall
    /\ hLoop = "idle"
    /\ hUnvisited = [priced |-> 0, unpriced |-> 0]
    /\ hWorkers = NoWorkers
    /\ hTag = "absent"
    /\ hTagRuns = 0
    /\ hTagHasHistory = FALSE
    /\ sem = 0
    /\ historyWg = 0

\* if s.History == nil || len(typeIDs) == 0 { return }
StartHistory ==
    /\ hLoop = "start"
    /\ hLoop' = IF ~hInput.store
                    \/ (hInput.priced + hInput.unpriced = 0 /\ ~hInput.observed)
                THEN "returned" ELSE "loop"
    /\ UNCHANGED <<hInput, hUnvisited, hWorkers, hTag, hTagRuns, hTagHasHistory, sem,
                   historyWg, graphVars, alertVars, resultVars, contractVars,
                   portfolioVars, fanInVars>>

\* an iteration for a type id without price data: continue
VisitUnpriced ==
    /\ hLoop = "loop"
    /\ hUnvisited.unpriced > 0
    /\ hUnvisited' = [hUnvisited EXCEPT !.unpriced = @ - 1]
    /\ UNCHANGED <<hInput, hLoop, hWorkers, hTag, hTagRuns, hTagHasHistory, sem,
                   historyWg, graphVars, alertVars, resultVars, contractVars,
                   portfolioVars, fanInVars>>

\* an iteration for a type id with price data, up to wg.Add(1): the loop
\* is before sem <- struct{}{}
VisitPriced(observed) ==
    /\ hLoop = "loop"
    /\ IF observed
       THEN /\ hTag = "unvisited"
            /\ hTag' = "sending"
            /\ UNCHANGED <<hUnvisited, hWorkers>>
       ELSE /\ hUnvisited.priced > 0
            /\ hUnvisited' = [hUnvisited EXCEPT !.priced = @ - 1]
            /\ hWorkers' = [hWorkers EXCEPT !.sending = @ + 1]
            /\ UNCHANGED hTag
    /\ historyWg' = historyWg + 1
    /\ hLoop' = "send"
    /\ UNCHANGED <<hInput, hTagRuns, hTagHasHistory, sem,
                   graphVars, alertVars, resultVars, contractVars,
                   portfolioVars, fanInVars>>

\* mutant: the worker is started without a token of the semaphore
StartWorker_NoSemaphore ==
    /\ hLoop = "send"
    /\ sem' = sem + 1
    /\ IF hTag = "sending"
       THEN hTag' = "running" /\ UNCHANGED hWorkers
       ELSE /\ hWorkers' = [hWorkers EXCEPT !.sending = @ - 1, !.running = @ + 1]
            /\ UNCHANGED hTag
    /\ hLoop' = "loop"
    /\ UNCHANGED <<hInput, hUnvisited, hTagRuns, hTagHasHistory, historyWg,
                   graphVars, alertVars, resultVars, contractVars,
                   portfolioVars, fanInVars>>

\* sem <- struct{}{} goes through when the channel is not full, and the go
\* statement starts the worker with the type id of the iteration
StartWorker ==
    /\ hLoop = "send"
    /\ sem < SemCapacity
    /\ sem' = sem + 1
    /\ IF hTag = "sending"
       THEN hTag' = "running" /\ UNCHANGED hWorkers
       ELSE /\ hWorkers' = [hWorkers EXCEPT !.sending = @ - 1, !.running = @ + 1]
            /\ UNCHANGED hTag
    /\ hLoop' = "loop"
    /\ UNCHANGED <<hInput, hUnvisited, hTagRuns, hTagHasHistory, historyWg,
                   graphVars, alertVars, resultVars, contractVars,
                   portfolioVars, fanInVars>>

\* the body of a worker: the history of its type id from the cache or from
\* ESI; on an error or an empty history it returns, else it sets VWAP,
\* DailyVolume and HasHistory; then the deferred <-sem
RunWorker(observed, ok) ==
    /\ IF observed
       THEN /\ hTag = "running"
            /\ hTag' = "releasing"
            /\ hTagRuns' = hTagRuns + 1
            /\ hTagHasHistory' = (hTagHasHistory \/ ok)
            /\ UNCHANGED hWorkers
       ELSE /\ hWorkers.running > 0
            /\ hWorkers' = [hWorkers EXCEPT !.running = @ - 1, !.releasing = @ + 1]
            /\ UNCHANGED <<hTag, hTagRuns, hTagHasHistory>>
    /\ sem' = sem - 1
    /\ UNCHANGED <<hInput, hLoop, hUnvisited, historyWg,
                   graphVars, alertVars, resultVars, contractVars,
                   portfolioVars, fanInVars>>

\* the deferred wg.Done() of a worker
WorkerDone(observed) ==
    /\ IF observed
       THEN /\ hTag = "releasing"
            /\ hTag' = "done"
            /\ UNCHANGED hWorkers
       ELSE /\ hWorkers.releasing > 0
            /\ hWorkers' = [hWorkers EXCEPT !.releasing = @ - 1, !.done = @ + 1]
            /\ UNCHANGED hTag
    /\ historyWg' = historyWg - 1
    /\ UNCHANGED <<hInput, hLoop, hUnvisited, hTagRuns, hTagHasHistory, sem,
                   graphVars, alertVars, resultVars, contractVars,
                   portfolioVars, fanInVars>>

\* the loop has been through every type id: the function is at wg.Wait()
EndHistoryLoop ==
    /\ hLoop = "loop"
    /\ hUnvisited.priced = 0 /\ hUnvisited.unpriced = 0 /\ hTag # "unvisited"
    /\ hLoop' = "wait"
    /\ UNCHANGED <<hInput, hUnvisited, hWorkers, hTag, hTagRuns, hTagHasHistory, sem,
                   historyWg, graphVars, alertVars, resultVars, contractVars,
                   portfolioVars, fanInVars>>

\* wg.Wait() returns
ReturnHistory ==
    /\ hLoop = "wait"
    /\ historyWg = 0
    /\ hLoop' = "returned"
    /\ UNCHANGED <<hInput, hUnvisited, hWorkers, hTag, hTagRuns, hTagHasHistory, sem,
                   historyWg, graphVars, alertVars, resultVars, contractVars,
                   portfolioVars, fanInVars>>

HistoryNext ==
    \/ StartHistory
    \/ VisitUnpriced
    \/ \E observed \in BOOLEAN : VisitPriced(observed)
    \/ StartWorker
    \/ \E observed \in BOOLEAN, ok \in BOOLEAN : RunWorker(observed, ok)
    \/ \E observed \in BOOLEAN : WorkerDone(observed)
    \/ EndHistoryLoop
    \/ ReturnHistory

-----------------------------------------------------------------------------
(* internal/engine portfolio: ComputePortfolioPnLWithOptions               *)
(*                                                                         *)
(* The function is run step by step: one step per transaction of the main  *)
(* loop and one per iteration of the matching loop of a sell. Quantities,  *)
(* the coverage counters, the legs of the ledger and the open positions    *)
(* are modelled; prices, fees and the daily statistics are not.            *)

MaxTxns == 3

\* time.Now(), in days
PortfolioNow == 31
DefaultLookbackDays == 30
MaxLookbackDays == 365

\* the days a transaction is dated: day 0 and day 1
TxDays == {0, 1}
TxQuantities == {1, 2}

WalletTransaction(id, day, typeID, isBuy, quantity) ==
    [TransactionID |-> id, t |-> day, TypeID |-> typeID, IsBuy |-> isBuy,
     Quantity |-> quantity]

\* the transaction lists: up to MaxTxns transactions, the transaction id of
\* each its place in the list, dated in any order. The function treats every
\* type alike, so the first transaction is of the first type.
RECURSIVE TxnLists(_)
TxnLists(n) ==
    IF n = 0 THEN {<<>>}
    ELSE LET shorter == TxnLists(n - 1)
         IN shorter \cup
            {Append(l, WalletTransaction(n, d, ty, b, q)) :
                l \in {x \in shorter : Len(x) = n - 1},
                d \in TxDays,
                ty \in (IF n = 1 THEN {CHOOSE x \in TradableTypeIDs :
                                          \A y \in TradableTypeIDs : x <= y}
                        ELSE TradableTypeIDs),
                b \in BOOLEAN, q \in TxQuantities}

\* the options: the default lookback (a cutoff at day 1) with the legacy
\* unmatched sells in the ledger, and a lookback of 31 days (a cutoff at day 0)
\* without them
PortfolioOptions ==
    {[LookbackDays |-> 0, IncludeUnmatchedSell |-> TRUE],
     [LookbackDays |-> 31, IncludeUnmatchedSell |-> FALSE]}

normalizePortfolioOptions(opt) ==
    [opt EXCEPT !.LookbackDays = IF opt.LookbackDays <= 0 THEN DefaultLookbackDays
                                 ELSE IF opt.LookbackDays > MaxLookbackDays
                                      THEN MaxLookbackDays
                                      ELSE opt.LookbackDays]

\* cutoff := now.AddDate(0, 0, -opt.LookbackDays)
Cutoff(opt) == PortfolioNow - normalizePortfolioOptions(opt).LookbackDays

\* inLookback := !rec.t.Before(cutoff)
InLookback(tx, opt) == ~(tx.t < Cutoff(opt))

\* mutant: the sort compares the transaction ids only
TxLess_ByIDOnly(a, b) == a.TransactionID < b.TransactionID

\* the less function of the sort: by time, ties by transaction id
TxLess(a, b) ==
    IF a.t = b.t THEN a.TransactionID < b.TransactionID ELSE a.t < b.t

\* sort.Slice(parsed, less): the transaction ids are distinct, so the order
\* is total and the result is the one sorted list
RECURSIVE SortTx(_)
SortTx(list) ==
    IF Len(list) = 0 THEN <<>>
    ELSE LET x == list[Len(list)]
             sorted == SortTx(SubSeq(list, 1, Len(list) - 1))
         IN SelectSeq(sorted, LAMBDA e : TxLess(e, x)) \o <<x>>
            \o SelectSeq(sorted, LAMBDA e : ~TxLess(e, x))

portfolioBuyLot(tx) ==
    [TransactionID |-> tx.TransactionID, Date |-> tx.t, TypeID |-> tx.TypeID,
     Remaining |-> tx.Quantity]

QueueOf(queues, typeID) == IF HasKey(queues, typeID) THEN queues[typeID] ELSE <<>>

\* mutant: a sell takes the whole of the lot at the head of the queue
MatchedQuantity_WholeLot(lot, rem) == lot.Remaining

\* matched := lot.Remaining; if matched > remaining { matched = remaining }
MatchedQuantity(lot, rem) == IF lot.Remaining > rem THEN rem ELSE lot.Remaining

RealizedTrade(tx, buyID, quantity, unmatched) ==
    [TypeID |-> tx.TypeID, Quantity |-> quantity, BuyTransactionID |-> buyID,
     SellTransactionID |-> tx.TransactionID, SellDate |-> tx.t, Unmatched |-> unmatched]

ZeroCoverage == [TotalSellQty |-> 0, MatchedSellQty |-> 0, UnmatchedSellQty |-> 0]

RECURSIVE SumRemaining(_, _)
SumRemaining(lots, i) ==
    IF i > Len(lots) THEN 0
    ELSE (IF lots[i].Remaining <= 0 THEN 0 ELSE lots[i].Remaining)
         + SumRemaining(lots, i + 1)

\* the open positions: per type (one location), the quantity of the lots
\* with something remaining; a type with nothing open has no position
OpenPositions(queues) ==
    LET open == {ty \in DOMAIN queues : SumRemaining(queues[ty], 1) > 0}
    IN [ty \in open |-> SumRemaining(queues[ty], 1)]

\* the less function of the sort of the ledger: newest sell first, then the
\* larger sell id, then the larger buy id
LedgerBefore(a, b) ==
    IF a.SellDate = b.SellDate
    THEN IF a.SellTransactionID = b.SellTransactionID
         THEN a.BuyTransactionID > b.BuyTransactionID
         ELSE a.SellTransactionID > b.SellTransactionID
    ELSE a.SellDate > b.SellDate

RECURSIVE SortLedger(_)
SortLedger(list) ==
    IF Len(list) = 0 THEN <<>>
    ELSE LET x == list[Len(list)]
             sorted == SortLedger(SubSeq(list, 1, Len(list) - 1))
         IN SelectSeq(sorted, LAMBDA e : LedgerBefore(e, x)) \o <<x>>
            \o SelectSeq(sorted, LAMBDA e : ~LedgerBefore(e, x))

PortfolioInit ==
    /\ txns \in TxnLists(MaxTxns)
    /\ pfOpt \in PortfolioOptions
    /\ parsed = <<>>
    /\ pfPc = "start"
    /\ pfIdx = 1
    /\ buyQueues = EmptyMap
    /\ pfQueue = <<>>
    /\ pfRemaining = 0
    /\ coverage = ZeroCoverage
    /\ ledger = <<>>
    /\ matches = <<>>
    /\ pfOut = NoCall

PortfolioAtRest ==
    /\ txns = <<>>
    /\ pfOpt = [LookbackDays |-> 0, IncludeUnmatchedSell |-> FALSE]
    /\ parsed = <<>>
    /\ pfPc = "idle"
    /\ pfIdx = 1
    /\ buyQueues = EmptyMap
    /\ pfQueue = <<>>
    /\ pfRemaining = 0
    /\ coverage = ZeroCoverage
    /\ ledger = <<>>
    /\ matches = <<>>
    /\ pfOut = NoCall

\* what is returned: the coverage, the ledger newest first and the open
\* positions
PortfolioPnL(cov, led, queues) ==
    [op |-> "ComputePortfolioPnLWithOptions", Coverage |-> cov,
     Ledger |-> SortLedger(led), OpenPositions |-> OpenPositions(queues)]

\* the head of the function: no transactions, return; else sort them
ParseAndSort ==
    /\ pfPc = "start"
    /\ IF Len(txns) = 0
       THEN /\ pfPc' = "done"
            /\ pfOut' = PortfolioPnL(ZeroCoverage, <<>>, EmptyMap)
            /\ UNCHANGED parsed
       ELSE /\ pfPc' = "loop"
            /\ parsed' = SortTx(txns)
            /\ UNCHANGED pfOut
    /\ UNCHANGED <<txns, pfOpt, pfIdx, buyQueues, pfQueue, pfRemaining, coverage, ledger,
                   matches, notPortfolioVars>>

\* for _, rec := range parsed: a buy is appended to the pfQueue of its type
ProcessBuy ==
    /\ pfPc = "loop"
    /\ pfIdx <= Len(parsed)
    /\ parsed[pfIdx].IsBuy
    /\ LET tx == parsed[pfIdx]
       IN buyQueues' = MapPut(buyQueues, tx.TypeID,
                              Append(QueueOf(buyQueues, tx.TypeID), portfolioBuyLot(tx)))
    /\ pfIdx' = pfIdx + 1
    /\ UNCHANGED <<txns, pfOpt, parsed, pfPc, pfQueue, pfRemaining, coverage, ledger,
                   matches, pfOut, notPortfolioVars>>

\* a sell: the pfQueue of its type is taken and the sell counted if it is
\* inside the lookback window
BeginSell ==
    /\ pfPc = "loop"
    /\ pfIdx <= Len(parsed)
    /\ ~parsed[pfIdx].IsBuy
    /\ LET tx == parsed[pfIdx]
       IN /\ pfQueue' = QueueOf(buyQueues, tx.TypeID)
          /\ pfRemaining' = tx.Quantity
          /\ coverage' = IF InLookback(tx, pfOpt)
                         THEN [coverage EXCEPT !.TotalSellQty = @ + tx.Quantity]
                         ELSE coverage
    /\ pfPc' = "match"
    /\ UNCHANGED <<txns, pfOpt, parsed, pfIdx, buyQueues, ledger, matches, pfOut,
                   notPortfolioVars>>

\* one iteration of for pfRemaining > 0 && len(pfQueue) > 0
MatchStep ==
    /\ pfPc = "match"
    /\ pfRemaining > 0 /\ Len(pfQueue) > 0
    /\ LET tx == parsed[pfIdx]
           lot == pfQueue[1]
           matched == MatchedQuantity(lot, pfRemaining)
           left == lot.Remaining - matched
       IN /\ pfQueue' = IF left <= 0 THEN Tail(pfQueue)
                       ELSE [pfQueue EXCEPT ![1].Remaining = left]
          /\ pfRemaining' = pfRemaining - matched
          /\ matches' = Append(matches, [sell |-> tx.TransactionID,
                                         buy |-> lot.TransactionID,
                                         quantity |-> matched])
          /\ IF InLookback(tx, pfOpt)
             THEN /\ coverage' = [coverage EXCEPT !.MatchedSellQty = @ + matched]
                  /\ ledger' = Append(ledger,
                                      RealizedTrade(tx, lot.TransactionID, matched, FALSE))
             ELSE UNCHANGED <<coverage, ledger>>
    /\ UNCHANGED <<txns, pfOpt, parsed, pfPc, pfIdx, buyQueues, pfOut, notPortfolioVars>>

\* after the matching loop: what is left of the sell is unmatched, and the
\* pfQueue is written back
EndSell ==
    /\ pfPc = "match"
    /\ ~(pfRemaining > 0 /\ Len(pfQueue) > 0)
    /\ LET tx == parsed[pfIdx]
       IN /\ IF InLookback(tx, pfOpt) /\ pfRemaining > 0
             THEN /\ coverage' = [coverage EXCEPT !.UnmatchedSellQty = @ + pfRemaining]
                  /\ ledger' = IF normalizePortfolioOptions(pfOpt).IncludeUnmatchedSell
                               THEN Append(ledger, RealizedTrade(tx, 0, pfRemaining, TRUE))
                               ELSE ledger
             ELSE UNCHANGED <<coverage, ledger>>
          /\ buyQueues' = MapPut(buyQueues, tx.TypeID, pfQueue)
    /\ pfPc' = "loop"
    /\ pfIdx' = pfIdx + 1
    /\ UNCHANGED <<txns, pfOpt, parsed, pfQueue, pfRemaining, matches, pfOut,
                   notPortfolioVars>>

\* after the loop: the result is assembled and returned
ReturnPortfolio ==
    /\ pfPc = "loop"
    /\ pfIdx > Len(parsed)
    /\ pfPc' = "done"
    /\ pfOut' = PortfolioPnL(coverage, ledger, buyQueues)
    /\ UNCHANGED <<txns, pfOpt, parsed, pfIdx, buyQueues, pfQueue, pfRemaining, coverage,
                   ledger, matches, notPortfolioVars>>

PortfolioNext ==
    \/ ParseAndSort
    \/ ProcessBuy
    \/ BeginSell
    \/ MatchStep
    \/ EndSell
    \/ ReturnPortfolio

-----------------------------------------------------------------------------
(* Specifications: each runs one component and leaves the others at rest   *)

GraphAtRest ==
    /\ Adj = [s \in Systems |-> <<>>]
    /\ SystemSecurity = EmptyMap
    /\ gCall = NoCall

AlertAtRest ==
    /\ watchlist = EmptyMap
    /\ alert_history = {}
    /\ nextAlertID = 1
    /\ now = 0
    /\ ticks = 0
    /\ scanPc = [s \in Scans |-> "idle"]
    /\ scanAlerts = [s \in Scans |-> <<>>]
    /\ last = NoCall

ContractsAtRest ==
    /\ sellOrders = <<>>
    /\ buyOrdersForLiquidation = <<>>
    /\ history = EmptyMap
    /\ allContracts = <<>>
    /\ contractItems = EmptyMap
    /\ cPrev = NoCall
    /\ cCall = NoCall

ScanUniverse ==
    /\ Adj = ScanUniverseAdj
    /\ SystemSecurity = ScanUniverseSecurity
    /\ gCall = NoCall

InitGraph ==
    GraphInit /\ AlertAtRest /\ ResultsInit /\ ContractsAtRest /\ PortfolioAtRest /\ FanInAtRest
        /\ HistoryAtRest
InitAlerts ==
    AlertInit /\ GraphAtRest /\ ResultsInit /\ ContractsAtRest /\ PortfolioAtRest /\ FanInAtRest
        /\ HistoryAtRest
InitResults ==
    ResultsInit /\ GraphAtRest /\ AlertAtRest /\ ContractsAtRest /\ PortfolioAtRest /\ FanInAtRest
        /\ HistoryAtRest
InitContracts ==
    ContractsInit /\ ScanUniverse /\ AlertAtRest /\ ResultsInit /\ PortfolioAtRest /\ FanInAtRest
        /\ HistoryAtRest

SpecGraph == InitGraph /\ [][GraphNext]_vars

SpecAlerts == InitAlerts /\ [][AlertNext]_vars

SpecCascade == InitAlerts /\ [][CascadeNext]_vars

SpecEligibility == InitAlerts /\ [][EligibilityNext]_vars

SpecResults == InitResults /\ [][ResultsNext]_vars

SpecContracts == InitContracts /\ [][ContractsNext]_vars

InitRanking ==
    RankingInit /\ ScanUniverse /\ AlertAtRest /\ ResultsInit /\ PortfolioAtRest /\ FanInAtRest
        /\ HistoryAtRest

SpecRanking == InitRanking /\ [][ContractsNext]_vars

IsolatedUniverse ==
    /\ Adj = IsolatedUniverseAdj
    /\ SystemSecurity = ScanUniverseSecurity
    /\ gCall = NoCall

InitEmptyRegion ==
    EmptyRegionInit /\ IsolatedUniverse /\ AlertAtRest /\ ResultsInit /\ PortfolioAtRest /\ FanInAtRest
        /\ HistoryAtRest

SpecEmptyRegion == InitEmptyRegion /\ [][EmptyRegionNext]_vars

InitFanIn ==
    FanInInit /\ ScanUniverse /\ AlertAtRest /\ ResultsInit /\ PortfolioAtRest
        /\ HistoryAtRest

SpecFanIn == InitFanIn /\ [][FanInNext]_vars

SpecConcurrentScans == InitAlerts /\ [][ConcurrentScansNext]_vars

InitHistory ==
    HistoryInit /\ GraphAtRest /\ AlertAtRest /\ ResultsInit /\ ContractsAtRest
        /\ PortfolioAtRest /\ FanInAtRest

SpecHistory == InitHistory /\ [][HistoryNext]_vars

\* the Go scheduler runs every goroutine that can take a step: the loop, and
\* each worker, which waits for nothing once it is started
FairSpecHistory == SpecHistory /\ WF_vars(HistoryNext)

InitPortfolio ==
    PortfolioInit /\ GraphAtRest /\ AlertAtRest /\ ResultsInit /\ ContractsAtRest
        /\ FanInAtRest /\ HistoryAtRest

SpecPortfolio == InitPortfolio /\ [][PortfolioNext]_vars

\* the function runs on one goroutine and takes no lock and waits for
\* nothing: a step that can be taken is taken
FairSpecPortfolio == SpecPortfolio /\ WF_vars(PortfolioNext)

InitFees ==
    ContractsAtRest /\ GraphAtRest /\ AlertAtRest /\ ResultsInit /\ PortfolioAtRest /\ FanInAtRest
        /\ HistoryAtRest

SpecFees == InitFees /\ [][FeesNext]_vars

-----------------------------------------------------------------------------
(* Reference notions the graph claims are stated against                   *)

\* system s has a known security rating of at least floor
Secure(s, floor) == HasKey(SystemSecurity, s) /\ SystemSecurity[s] >= floor

Neighbors(s) == {Adj[s][i] : i \in 1..Len(Adj[s])}

\* the systems joined to origin by a path of at most k jumps on which every
\* system, origin included, has security >= floor
RECURSIVE SecureWithin(_, _, _)
SecureWithin(origin, k, floor) ==
    IF k <= 0 THEN (IF Secure(origin, floor) THEN {origin} ELSE {})
    ELSE LET P == SecureWithin(origin, k - 1, floor)
         IN P \cup {t \in Systems : Secure(t, floor) /\ \E s \in P : t \in Neighbors(s)}

\* the length of the shortest such path to s (s is in SecureWithin(origin, r, floor))
SecureDistance(origin, s, r, floor) ==
    CHOOSE k \in 0..r :
        /\ s \in SecureWithin(origin, k, floor)
        /\ \A j \in 0..(k - 1) : s \notin SecureWithin(origin, j, floor)

-----------------------------------------------------------------------------
(* Claims about the universe graph, checked under SpecGraph                *)

\* C7: on an undirected adjacency list ShortestPath(a, b) = ShortestPath(b, a),
\* the values -1 (no path) and 0 (a = b) included.
C7_ShortestPathSymmetric ==
    (gCall.op = "ShortestPath") =>
        gCall.ret = ShortestPath(gCall.dest, gCall.origin)

\* C7 witness: a query answered 2 (a route through a middle system) whose
\* reverse query also answers 2.
C7_Witness ==
    /\ gCall.op = "ShortestPath"
    /\ gCall.ret = 2
    /\ ShortestPath(gCall.dest, gCall.origin) = 2

\* C8 as stated: with a floor f > 0 the returned value is never smaller than
\* the value ShortestPath returns.
C8_FloorNeverSmaller ==
    (gCall.op = "ShortestPathMinSecurity" /\ gCall.minSecurity > 0) =>
        gCall.ret >= ShortestPath(gCall.origin, gCall.dest)

\* C8 amended: with a floor f > 0 ShortestPathMinSecurity returns -1 (no route
\* under the floor), or a jump count that is at least the jump count
\* ShortestPath returns.
C8_FloorNeverShorter ==
    (gCall.op = "ShortestPathMinSecurity" /\ gCall.minSecurity > 0) =>
        \/ gCall.ret = -1
        \/ /\ ShortestPath(gCall.origin, gCall.dest) >= 0
           /\ gCall.ret >= ShortestPath(gCall.origin, gCall.dest)

\* C8 witness: a floor query answered with a route of two jumps, the middle
\* system passing the floor.
C8_Witness ==
    /\ gCall.op = "ShortestPathMinSecurity"
    /\ gCall.minSecurity > 0
    /\ gCall.ret = 2
    /\ ShortestPath(gCall.origin, gCall.dest) = 2

C10_SecureReachability ==
    (gCall.op = "SystemsWithinRadiusMinSecurity" /\ gCall.minSecurity > 0) =>
        \A s \in DOMAIN gCall.ret :
            /\ s \in SecureWithin(gCall.origin, gCall.maxJumps, gCall.minSecurity)
            /\ gCall.ret[s] =
                   SecureDistance(gCall.origin, s, gCall.maxJumps, gCall.minSecurity)

\* C29: for every origin, radius r and floor f, every system s of the radius
\* set with value d has ShortestPathMinSecurity(origin, s, f) = d, and every
\* system s with 0 <= ShortestPathMinSecurity(origin, s, f) <= r is in the
\* radius set.
C29_RadiusAgreesWithPath ==
    (gCall.op \in {"SystemsWithinRadius", "SystemsWithinRadiusMinSecurity"}) =>
        /\ \A s \in DOMAIN gCall.ret :
               ShortestPathMinSecurity(gCall.origin, s, gCall.minSecurity) = gCall.ret[s]
        /\ \A s \in Systems :
               LET d == ShortestPathMinSecurity(gCall.origin, s, gCall.minSecurity)
               IN (0 <= d /\ d <= gCall.maxJumps) => HasKey(gCall.ret, s)

-----------------------------------------------------------------------------
(* Claims about the alert pipeline, checked under SpecAlerts               *)

Cooldown == DefaultAlertCooldownSeconds * MsPerSecond

ReturnedTriples(alerts) == {AlertTriple(alerts[i]) : i \in 1..Len(alerts)}

\* the current value of the item's metric in the results of the last check
CurrentValueOf(item) ==
    extractMetricValue(item.TypeID, EffectiveMetric(item), last.results)

\* C1: once a row for a triple (type_id, metric, threshold) is recorded with
\* sent_at = t0, CheckWatchlistAlerts returns no alert for that triple before
\* t0 + 3600 s, and two rows of one triple are never less than 3600 s apart
\* (a threshold crossed twice within 10 minutes leaves one row).
C1_AlertCooldown ==
    /\ (last.op = "CheckWatchlistAlerts") =>
           \A i \in 1..Len(last.alerts) : \A r \in alert_history :
               (RowTriple(r) = AlertTriple(last.alerts[i])) =>
                   now >= ParseRFC3339(r.SentAt) + Cooldown
    /\ \A r1 \in alert_history, r2 \in alert_history :
           (r1 # r2 /\ RowTriple(r1) = RowTriple(r2) /\ r1.SentAt <= r2.SentAt) =>
               ParseRFC3339(r2.SentAt) >= ParseRFC3339(r1.SentAt) + Cooldown

\* C1 witness: a second scan, 10 minutes after the row of the first, crosses
\* the same threshold; no alert is returned and the triple has one row.
C1_Witness ==
    /\ last.op = "CheckWatchlistAlerts"
    /\ last.failed = {}
    /\ \E t \in DOMAIN watchlist :
           LET item == watchlist[t]
               triple == <<t, EffectiveMetric(item), EffectiveThreshold(item)>>
               rows == {r \in alert_history : RowTriple(r) = triple}
           IN /\ item.AlertEnabled
              /\ EffectiveThreshold(item) > 0
              /\ CurrentValueOf(item).ok
              /\ CurrentValueOf(item).value >= EffectiveThreshold(item)
              /\ Cardinality(rows) = 1
              /\ \E r \in rows : now - ParseRFC3339(r.SentAt) = 600000
              /\ triple \notin ReturnedTriples(last.alerts)

\* a row of the item's type and metric recorded less than the cooldown ago
\* with a threshold T1 that the item no longer has, neither as its threshold
\* nor as its min-margin fallback: the threshold was changed since
RecentAlertAtOtherThreshold(item) ==
    \E r \in alert_history :
        /\ r.WatchlistTypeID = item.TypeID
        /\ r.AlertMetric = EffectiveMetric(item)
        /\ r.AlertThreshold # item.AlertThreshold
        /\ r.AlertThreshold # EffectiveThreshold(item)
        /\ now - ParseRFC3339(r.SentAt) < Cooldown

-----------------------------------------------------------------------------
(* Claims about alert eligibility and alert persistence, checked under     *)
(* SpecEligibility                                                         *)

\* the rows of the type in the results of the last check; none in contract
\* results, which carry no type_id
RowsOfType(typeID) ==
    IF last.results.kind = "contract" THEN {}
    ELSE {j \in 1..Len(last.results.rows) : last.results.rows[j].TypeID = typeID}

\* the tracked metric as read from one result row
MetricOfRow(row, metric) ==
    IF last.results.kind = "flip" THEN extractFlipMetric(row, metric)
    ELSE extractStationMetric(row, metric)

\* C18: every alert returned by CheckWatchlistAlerts belongs to a watchlist
\* row with alert_enabled set, whose type_id occurs in the scan results, whose
\* effective threshold (alert_threshold, or the legacy min margin when
\* alert_threshold <= 0) is > 0, and whose current value of the tracked metric
\* is >= that threshold; disabled rows, types absent from the results and
\* values below the threshold produce no alert.
C18_AlertEligibility ==
    (last.op = "CheckWatchlistAlerts") =>
        \A i \in 1..Len(last.alerts) :
            LET a == last.alerts[i] IN
            /\ HasKey(watchlist, a.TypeID)
            /\ LET item == watchlist[a.TypeID]
                   threshold == IF item.AlertThreshold <= 0 THEN item.AlertMinMargin
                                ELSE item.AlertThreshold
                   metric == IF item.AlertMetric = "" THEN "margin_percent"
                             ELSE item.AlertMetric
               IN /\ item.AlertEnabled
                  /\ threshold > 0
                  /\ a.Threshold = threshold
                  /\ RowsOfType(a.TypeID) # {}
                  /\ \E j \in RowsOfType(a.TypeID) :
                         /\ MetricOfRow(last.results.rows[j], metric) = a.CurrentValue
                         /\ MetricOfRow(last.results.rows[j], metric) >= threshold

\* C18 witness: station results hold type 34 at a margin of 7 percent and type
\* 35 at a total profit of 6; the row of type 34 asks for 10 percent and the
\* row of type 35 for a total profit of 5: one alert, for type 35.
C18_Witness ==
    /\ last.op = "CheckWatchlistAlerts"
    /\ last.results.kind = "station"
    /\ RowsOfType(34) # {}
    /\ HasKey(watchlist, 34)
    /\ watchlist[34].AlertEnabled
    /\ watchlist[34].AlertThreshold = 10
    /\ watchlist[34].AlertMetric = ""
    /\ Len(last.alerts) = 1
    /\ last.alerts[1].TypeID = 35
    /\ last.alerts[1].CurrentValue = 6

\* the channels of a sequence of channel names
ChannelsOf(seq) == {seq[i] : i \in 1..Len(seq)}

\* C19: when SaveAlertHistory fails inside SendAlert, the channel sends
\* already performed are not undone (every channel that took the message is
\* still reported as sent), SendAlert returns a nil error, the failure is
\* logged, and alert_history has no new row.
C19_PersistenceFailure ==
    (last.op = "SendAlert" /\ ~last.saved) =>
        /\ ChannelsOf(last.external.Sent) \subseteq ChannelsOf(last.out.channelsSent)
        /\ last.out.err = NilError
        /\ "Failed to save alert history" \in ChannelsOf(last.out.log)
        /\ alert_history = last.before

\* C19 witness: an alert went to telegram and discord, the save of its row
\* failed, and the row recorded for an earlier alert is the only one.
C19_Witness ==
    /\ last.op = "SendAlert"
    /\ ~last.saved
    /\ ChannelsOf(last.external.Sent) = {"telegram", "discord"}
    /\ Cardinality(alert_history) = 1

-----------------------------------------------------------------------------
(* Claims about the watchlist cascade, checked under SpecCascade           *)

-----------------------------------------------------------------------------
(* Claims about the scan result tables, checked under SpecResults          *)

\* the rows the table of the last insert holds for the scan id of that insert
StoredByLastInsert ==
    IF rCall.op = "InsertFlipResults" THEN GetFlipResults(rCall.scanID)
    ELSE IF rCall.op = "InsertContractResults" THEN GetContractResults(rCall.scanID)
    ELSE GetStationResults(rCall.scanID)

\* the rows named by their key column
RowKeys(rows) ==
    [i \in 1..Len(rows) |-> IF "ContractID" \in DOMAIN rows[i] THEN rows[i].ContractID
                            ELSE rows[i].TypeID]

\* C5: after InsertFlipResults, InsertStationResults or InsertContractResults
\* for a scan id, the table holds every row of the result set for that scan
\* id or none of them, never a non-empty strict subset.
C5_AllOrNothing ==
    (rCall # NoCall) =>
        \/ StoredByLastInsert = <<>>
        \/ RowKeys(StoredByLastInsert) = RowKeys(rCall.results)

\* C17: for a scan id that InsertHistory returned, GetStationResults after
\* InsertStationResults, and GetContractResults after InsertContractResults,
\* return the inserted rows with every field equal, the execution fields
\* of a station row and the long-horizon fields of a contract row included
\* (stated for the inserts that wrote every row).
C17_ResultRoundTrip ==
    (/\ rCall.op \in {"InsertStationResults", "InsertContractResults"}
     /\ rCall.scanID # 0
     /\ RowKeys(StoredByLastInsert) = RowKeys(rCall.results)) =>
        StoredByLastInsert = rCall.results

-----------------------------------------------------------------------------
(* Claims about the contract scan, checked under SpecContracts             *)

RECURSIVE SumQuantity(_, _, _)
\* the quantity of a type over the included, non-blueprint item lines
SumQuantity(items, typeID, i) ==
    IF i > Len(items) THEN 0
    ELSE (IF /\ items[i].TypeID = typeID
             /\ items[i].IsIncluded
             /\ ~items[i].IsBlueprintCopy
          THEN items[i].Quantity ELSE 0)
         + SumQuantity(items, typeID, i + 1)

\* the buy orders of the sell radius can take the whole quantity of every
\* tradable type of the contract
Absorbable(contractID) ==
    \A typeID \in TradableTypeIDs :
        SumQuantity(ItemsOf(contractID), typeID, 1)
            <= SumVolumeRemain(SelectSeq(buyOrdersForLiquidation,
                                         LAMBDA o : o.TypeID = typeID), 1)

\* C4: in instant-liquidation mode the buy orders of the sell radius can
\* absorb the full quantity of all included non-blueprint items of every
\* returned contract taken together, also when several lines have one type.
C4_ReturnedContractsAbsorbable ==
    (cCall # NoCall /\ cCall.params.ContractInstantLiquidation) =>
        \A i \in 1..Len(cCall.ret) : Absorbable(cCall.ret[i].ContractID)

\* C6 as stated: when the second of two scans of one market differs
\* from the first only by a higher MinMargin or only by a higher
\* MinPricedRatio (0 included), it returns no more contracts.
C6_TighterReturnsNoMore ==
    (cPrev # NoCall) =>
        ((\/ /\ DifferOnlyIn(cPrev.params, cCall.params, "MinMargin")
             /\ cCall.params.MinMargin > cPrev.params.MinMargin
          \/ /\ DifferOnlyIn(cPrev.params, cCall.params, "MinPricedRatio")
             /\ cCall.params.MinPricedRatio > cPrev.params.MinPricedRatio)
         => Len(cCall.ret) <= Len(cPrev.ret))

\* C6 amended: the same, the priced ratios compared as getContractFilters
\* reads them (a value <= 0 is the default 0.8).
C6_TighterEffectiveReturnsNoMore ==
    (cPrev # NoCall) =>
        ((\/ /\ DifferOnlyIn(cPrev.params, cCall.params, "MinMargin")
             /\ cCall.params.MinMargin > cPrev.params.MinMargin
          \/ /\ DifferOnlyIn(cPrev.params, cCall.params, "MinPricedRatio")
             /\ getContractFilters(cCall.params).minPricedRatio
                    > getContractFilters(cPrev.params).minPricedRatio)
         => Len(cCall.ret) <= Len(cPrev.ret))

\* C6 witness: a priced ratio of 0.5 raised to 1.0 in estimate mode drops a
\* contract that was returned.
C6_Witness ==
    /\ cPrev # NoCall
    /\ DifferOnlyIn(cPrev.params, cCall.params, "MinPricedRatio")
    /\ ~cCall.params.ContractInstantLiquidation
    /\ cPrev.params.MinPricedRatio = 50
    /\ cCall.params.MinPricedRatio = 100
    /\ Len(cCall.ret) < Len(cPrev.ret)

\* the lowest sell-order price of the type among the orders of the buy
\* radius, in thousandths
CheapestAsk(typeID) ==
    LET orders == SellOrdersOfType(typeID)
    IN Milli * (CHOOSE p \in {orders[i].Price : i \in 1..Len(orders)} :
                    \A i \in 1..Len(orders) : p <= orders[i].Price)

\* the VWAP of the type in the history of the primary region, in thousandths;
\* 0 when unknown
KnownVWAP(typeID) ==
    IF HasKey(history, typeID) THEN history[typeID].VWAP * Milli ELSE 0

\* the item lines of the candidates of the last scan that count as types and
\* have sell orders
EstimateLines ==
    {item \in UNION {{ItemsOf(c.ContractID)[k] : k \in 1..Len(ItemsOf(c.ContractID))} :
                        c \in {Candidates(cCall.params)[i] :
                                 i \in 1..Len(Candidates(cCall.params))}} :
        /\ item.IsIncluded
        /\ ~item.IsBlueprintCopy
        /\ item.TypeID \notin BlueprintTypeIDs
        /\ Len(SellOrdersOfType(item.TypeID)) > 0}

\* the tally of a contract that holds the one item line
TallyOfLine(item) == EstimateItem(NewTally, item, cCall.params)

\* C11: in estimate mode an item line of a type with a known VWAP > 0 is
\* valued at min(VWAP, cheapest ask) per unit when the cheapest ask is at
\* least half the VWAP, and at min(0.7 VWAP, 2 cheapest ask) with the
\* high-deviation counter incremented when it is below; without a VWAP the
\* line is dropped when RequireHistory is set and valued at the cheapest ask
\* otherwise. The cheapest ask is the lowest sell-order price of the type.
C11_EstimateUnitValue ==
    (cCall # NoCall /\ ~cCall.params.ContractInstantLiquidation) =>
        \A item \in EstimateLines :
            LET t == TallyOfLine(item)
                ask == CheapestAsk(item.TypeID)
                vwap == KnownVWAP(item.TypeID)
            IN IF vwap > 0
               THEN IF ask * 2 >= vwap
                    THEN /\ t.pricedCount = 1
                         /\ t.marketValue = Min(vwap, ask) * item.Quantity
                         /\ t.highDeviationItems = 0
                    ELSE /\ t.pricedCount = 1
                         /\ t.marketValue
                                = Min((vwap * 7) \div 10, ask * 2) * item.Quantity
                         /\ t.highDeviationItems = 1
               ELSE IF cCall.params.RequireHistory
                    THEN t.pricedCount = 0
                    ELSE /\ t.pricedCount = 1
                         /\ t.marketValue = ask * item.Quantity

\* the indices of the item lines of a contract that count as types: included
\* lines that are neither blueprint copies nor blueprints
CountedLines(contractID) ==
    {k \in 1..Len(ItemsOf(contractID)) :
        /\ ItemsOf(contractID)[k].IsIncluded
        /\ ~ItemsOf(contractID)[k].IsBlueprintCopy
        /\ ItemsOf(contractID)[k].TypeID \notin BlueprintTypeIDs}

\* the daily volume of the type in the history of the primary region
DailyVolumeOf(typeID) ==
    IF HasKey(history, typeID) THEN history[typeID].DailyVolume ELSE 0

\* the counted lines that have a market price: a buy book that takes the
\* line (instant liquidation), or sell orders and, when history is required,
\* a VWAP (estimate)
PricedLines(contractID, params) ==
    {k \in CountedLines(contractID) :
        LET item == ItemsOf(contractID)[k]
        IN IF params.ContractInstantLiquidation
           THEN item.Quantity
                    <= SumVolumeRemain(SelectSeq(buyOrdersForLiquidation,
                                                 LAMBDA o : o.TypeID = item.TypeID), 1)
           ELSE /\ Len(SellOrdersOfType(item.TypeID)) > 0
                /\ (KnownVWAP(item.TypeID) > 0 \/ ~params.RequireHistory)}

LowVolumeLines(contractID, params) ==
    {k \in PricedLines(contractID, params) :
        DailyVolumeOf(ItemsOf(contractID)[k].TypeID) < MinDailyVolumeForContract}

\* the priced lines whose cheapest ask is below half the VWAP of the type
HighDeviationLines(contractID, params) ==
    {k \in PricedLines(contractID, params) :
        LET typeID == ItemsOf(contractID)[k].TypeID
        IN /\ KnownVWAP(typeID) > 0
           /\ CheapestAsk(typeID) * 2 < KnownVWAP(typeID)}

\* C12: every returned contract has priced items / non-blueprint items at
\* or above the effective minimum priced ratio and, the volumes and
\* deviations being those of estimate mode, at most 50% of its priced items
\* below the daily-volume floor and at most 30% of them high-deviation; so a
\* contract whose only item is bait-priced is not returned.
C12_RejectionRatios ==
    (cCall # NoCall) =>
        \A i \in 1..Len(cCall.ret) :
            LET id == cCall.ret[i].ContractID
                priced == Cardinality(PricedLines(id, cCall.params))
            IN /\ priced * 100 >= getContractFilters(cCall.params).minPricedRatio
                                      * Cardinality(CountedLines(id))
               /\ ~cCall.params.ContractInstantLiquidation =>
                      /\ Cardinality(LowVolumeLines(id, cCall.params)) * 2 <= priced
                      /\ Cardinality(HighDeviationLines(id, cCall.params)) * 10
                             <= 3 * priced

\* the maximum margin in force: the parameter, or 100 when it is unset
EffectiveMaxMargin(params) ==
    IF params.MaxContractMargin <= 0 THEN DefaultMaxContractMargin
    ELSE params.MaxContractMargin

\* C13: every returned contract has a realized profit > 0 and a realized
\* margin (profit / contract price, in percent) at or below the effective
\* maximum contract margin, which is the parameter or 100 when the parameter
\* is <= 0; a contract with a higher realized margin is never returned.
C13_MaxMarginFilter ==
    (cCall # NoCall) =>
        \A i \in 1..Len(cCall.ret) :
            LET r == cCall.ret[i]
            IN /\ r.Profit > 0
               /\ r.Profit * 100 <= EffectiveMaxMargin(cCall.params) * r.Price * Milli
               /\ r.MarginPercent <= EffectiveMaxMargin(cCall.params) * Milli

\* C13 witness: a scan with the maximum margin unset returns a contract and
\* leaves out a candidate that passes the ratio checks with a margin above
\* 100%.
C13_Witness ==
    /\ cCall # NoCall
    /\ cCall.params.MaxContractMargin = 0
    /\ Len(cCall.ret) > 0
    /\ \E i \in 1..Len(Candidates(cCall.params)) :
           LET c == Candidates(cCall.params)[i]
               e == EvaluateContract(c, cCall.params)
           IN /\ PassesRatios(ItemLoop(NewTally, ItemsOf(c.ContractID), 1, cCall.params),
                              cCall.params)
              /\ e.result.Profit * 100 > DefaultMaxContractMargin * c.Price * Milli
              /\ \A k \in 1..Len(cCall.ret) : cCall.ret[k].ContractID # c.ContractID

\* the target confidence and the holding horizon in force
EffectiveTargetConfidence(params) ==
    IF params.ContractTargetConfidence <= 0 THEN DefaultContractTargetConfidence
    ELSE Min(params.ContractTargetConfidence, 100)

EffectiveHoldDays(params) ==
    IF params.ContractHoldDays <= 0 THEN DefaultContractHoldDays
    ELSE Min(params.ContractHoldDays, MaxContractHoldDays)

\* the type has no price data, or neither a daily volume in the history nor
\* depth on offer: effectiveDailyVolume is 0
NoExecutableVolume(typeID) ==
    \/ Len(SellOrdersOfType(typeID)) = 0
    \/ /\ DailyVolumeOf(typeID) <= 0
       /\ SumVolumeRemain(SellOrdersOfType(typeID), 1) <= 0

\* the fill probability of an item line within the holding horizon
LineFillProbability(item, params) ==
    fillProbabilityWithinDays(
        estimateFillDays(item.Quantity,
                         effectiveDailyVolume(priceDataOf(item.TypeID, params))),
        EffectiveHoldDays(params))

\* the product of the fill probabilities of the priced lines from line k on
RECURSIVE FillProduct(_, _, _, _)
FillProduct(acc, contractID, params, k) ==
    IF k > Len(ItemsOf(contractID)) THEN acc
    ELSE IF k \in PricedLines(contractID, params)
         THEN FillProduct((acc * LineFillProbability(ItemsOf(contractID)[k], params))
                              \div Milli,
                          contractID, params, k + 1)
         ELSE FillProduct(acc, contractID, params, k + 1)

\* what C14 says of the returned contract r apart from its items' volumes
AcceptedOnEstimate(r, params) ==
    /\ r.SellConfidence = 100 * FillProduct(Milli, r.ContractID, params, 1)
    /\ r.SellConfidence >= EffectiveTargetConfidence(params) * Milli
    /\ r.CarryCost = r.Price * ContractDailyCarryRate * EffectiveHoldDays(params)
    /\ r.ExpectedProfit = r.ConservativeValue - r.Price * Milli - r.CarryCost
    /\ r.ExpectedProfit > 0
    /\ r.ExpectedProfit * 100 >= params.MinMargin * r.Price * Milli

\* C14 as stated: in estimate mode every returned contract has a sell
\* confidence, the product of the fill probabilities of its items in
\* percent, at or above the effective target confidence; an expected profit,
\* the conservative proceeds minus the contract price minus the carry cost
\* price * daily carry rate * hold days, above 0; and an expected margin at
\* or above MinMargin. No returned contract contains an item without
\* executable daily volume.
C14_EstimateAcceptance ==
    (cCall # NoCall /\ ~cCall.params.ContractInstantLiquidation) =>
        \A i \in 1..Len(cCall.ret) :
            /\ AcceptedOnEstimate(cCall.ret[i], cCall.params)
            /\ \A k \in CountedLines(cCall.ret[i].ContractID) :
                   ~NoExecutableVolume(ItemsOf(cCall.ret[i].ContractID)[k].TypeID)

\* C14 amended: the same, for the priced items: no returned contract holds
\* a priced item without executable daily volume, whose fill probability is
\* 0; an item without a price takes no part in the confidence.
C14_EstimateAcceptancePriced ==
    (cCall # NoCall /\ ~cCall.params.ContractInstantLiquidation) =>
        \A i \in 1..Len(cCall.ret) :
            /\ AcceptedOnEstimate(cCall.ret[i], cCall.params)
            /\ \A k \in PricedLines(cCall.ret[i].ContractID, cCall.params) :
                   LET item == ItemsOf(cCall.ret[i].ContractID)[k]
                   IN /\ ~NoExecutableVolume(item.TypeID)
                      /\ LineFillProbability(item, cCall.params) > 0

\* C14 witness: an estimate-mode scan returns a contract and leaves out a
\* candidate that passes the ratio and margin checks but holds a priced item
\* without executable daily volume.
C14_Witness ==
    /\ cCall # NoCall
    /\ ~cCall.params.ContractInstantLiquidation
    /\ Len(cCall.ret) > 0
    /\ \E i \in 1..Len(Candidates(cCall.params)) :
           LET c == Candidates(cCall.params)[i]
               e == EvaluateContract(c, cCall.params)
           IN /\ PassesRatios(ItemLoop(NewTally, ItemsOf(c.ContractID), 1, cCall.params),
                              cCall.params)
              /\ e.result.Profit > 0
              /\ e.result.Profit * 100
                     <= EffectiveMaxMargin(cCall.params) * c.Price * Milli
              /\ \E k \in PricedLines(c.ContractID, cCall.params) :
                     NoExecutableVolume(ItemsOf(c.ContractID)[k].TypeID)
              /\ \A k \in 1..Len(cCall.ret) : cCall.ret[k].ContractID # c.ContractID

-----------------------------------------------------------------------------
(* Claims about the revenue multiplier, checked under SpecFees             *)

\* C15: contractSellValueMultiplier returns 1 - sales tax / 100 in
\* instant-liquidation mode, the broker fee ignored, and
\* 1 - (sales tax + broker fee) / 100 in estimate mode, and 0 instead of a
\* negative value when the fees exceed 100% (the multiplier is in percent).
C15_RevenueMultiplier ==
    (cCall.op = "contractSellValueMultiplier") =>
        LET fees == IF cCall.params.ContractInstantLiquidation
                    THEN cCall.params.SalesTaxPercent
                    ELSE cCall.params.SalesTaxPercent + cCall.params.BrokerFeePercent
        IN /\ fees <= 100 => cCall.ret = 100 - fees
           /\ fees > 100 => cCall.ret = 0

\* C15 witness: in instant-liquidation mode a sales tax of 60% leaves 40%
\* although tax and broker fee together exceed 100%.
C15_Witness ==
    /\ cCall.op = "contractSellValueMultiplier"
    /\ cCall.params.ContractInstantLiquidation
    /\ cCall.params.SalesTaxPercent = 60
    /\ cCall.params.BrokerFeePercent = 60
    /\ cCall.ret = 40

-----------------------------------------------------------------------------
(* Claims about the ranking of the contracts, checked under SpecRanking    *)

\* the key the list is ranked by
RankingKey(r) == IF r.ExpectedProfit = 0 THEN r.Profit ELSE r.ExpectedProfit

\* the accepted contracts of the last scan before they are ranked
AcceptedResults == ContractLoop(Candidates(cCall.params), cCall.params)

\* C16: the list returned by ScanContracts is in non-increasing order of the
\* key (ExpectedProfit, or Profit when ExpectedProfit is 0), holds at most
\* MaxUnlimitedResults entries, all of them accepted contracts, and when it
\* is cut keeps the entries with the largest keys.
C16_Ranking ==
    (cCall # NoCall) =>
        LET ret == cCall.ret
            all == AcceptedResults
        IN /\ \A i, j \in 1..Len(ret) :
                  i < j => RankingKey(ret[i]) >= RankingKey(ret[j])
           /\ Len(ret) = Min(Len(all), MaxUnlimitedResults)
           /\ \A i, j \in 1..Len(ret) : i # j => ret[i] # ret[j]
           /\ \A i \in 1..Len(ret) : \E k \in 1..Len(all) : all[k] = ret[i]
           /\ \A k \in 1..Len(all) :
                  (\A i \in 1..Len(ret) : ret[i] # all[k]) =>
                      \A i \in 1..Len(ret) : RankingKey(all[k]) <= RankingKey(ret[i])

\* C16 witness: more contracts are accepted than the cap admits, in an order
\* other than that of their keys, and the list is cut to the cap with
\* entries of different keys.
C16_Witness ==
    /\ cCall # NoCall
    /\ Len(AcceptedResults) > MaxUnlimitedResults
    /\ \E k \in 1..(Len(AcceptedResults) - 1) :
           RankingKey(AcceptedResults[k]) < RankingKey(AcceptedResults[k + 1])
    /\ Len(cCall.ret) = MaxUnlimitedResults
    /\ RankingKey(cCall.ret[1]) > RankingKey(cCall.ret[Len(cCall.ret)])

-----------------------------------------------------------------------------
(* Claims about the scan of an empty region, checked under SpecEmptyRegion *)

\* the scan started at an isolated system with a buy radius of 0, with no
\* orders and no contracts
EmptyRegionScan ==
    /\ cCall.op = "ScanContracts"
    /\ Adj[cCall.params.CurrentSystemID] = <<>>
    /\ cCall.params.BuyRadius = 0
    /\ sellOrders = <<>>
    /\ buyOrdersForLiquidation = <<>>
    /\ allContracts = <<>>

-----------------------------------------------------------------------------
(* Claims about the portfolio P&L, checked under SpecPortfolio and         *)
(* FairSpecPortfolio                                                       *)

\* the transaction of an id: the transaction ids are the places in the list
TxOf(id) == txns[id]

\* the order of processing the claims name: by time, ties by transaction id
Precedes(a, b) ==
    \/ a.t < b.t
    \/ a.t = b.t /\ a.TransactionID < b.TransactionID

\* the quantity of the buy lot buyID consumed by the first k - 1 matches
RECURSIVE ConsumedBefore(_, _)
ConsumedBefore(k, buyID) ==
    IF k <= 1 THEN 0
    ELSE (IF matches[k - 1].buy = buyID THEN matches[k - 1].quantity ELSE 0)
         + ConsumedBefore(k - 1, buyID)

\* the quantity of the sell sellID matched by the first k - 1 matches
RECURSIVE SoldBefore(_, _)
SoldBefore(k, sellID) ==
    IF k <= 1 THEN 0
    ELSE (IF matches[k - 1].sell = sellID THEN matches[k - 1].quantity ELSE 0)
         + SoldBefore(k - 1, sellID)

\* the transactions are processed in order of time, ties by transaction id
ProcessedInOrder ==
    (pfPc \in {"loop", "match", "done"} /\ Len(txns) > 0) =>
        /\ Len(parsed) = Len(txns)
        /\ \A i \in 1..Len(txns) : \E j \in 1..Len(parsed) : parsed[j] = txns[i]
        /\ \A i, j \in 1..Len(parsed) : i < j => Precedes(parsed[i], parsed[j])
        /\ \A j, k \in 1..Len(matches) :
               j < k => \/ matches[j].sell = matches[k].sell
                        \/ Precedes(TxOf(matches[j].sell), TxOf(matches[k].sell))

\* every match is of a sell with the oldest buy lot of its type that is not
\* exhausted, for what remains of the lot or of the sell, and the buy comes
\* before the sell
MatchesAreFIFO ==
    \A k \in 1..Len(matches) :
        LET m == matches[k]
            s == TxOf(m.sell)
            b == TxOf(m.buy)
            lotLeft == b.Quantity - ConsumedBefore(k, m.buy)
            sellLeft == s.Quantity - SoldBefore(k, m.sell)
        IN /\ b.IsBuy /\ ~s.IsBuy
           /\ b.TypeID = s.TypeID
           /\ Precedes(b, s)
           /\ m.quantity > 0
           /\ m.quantity = (IF lotLeft > sellLeft THEN sellLeft ELSE lotLeft)
           /\ \A o \in 1..Len(txns) :
                  (TxOf(o).IsBuy /\ TxOf(o).TypeID = s.TypeID /\ Precedes(TxOf(o), b))
                      => ConsumedBefore(k, o) = TxOf(o).Quantity

\* an iteration of the matching loop lowers what remains of the sell and
\* never below zero, and the loop is left only with the sell matched or the
\* queue empty
MatchingLoopStep ==
    /\ (pfPc = "match" /\ pfPc' = "match")
           => (0 <= pfRemaining' /\ pfRemaining' < pfRemaining
                  /\ Len(pfQueue') <= Len(pfQueue))
    /\ (pfPc = "match" /\ pfPc' = "loop")
           => (pfRemaining = 0 \/ Len(pfQueue) = 0)

\* C25: the transactions are processed in order of time, ties by transaction
\* id; each sell consumes the oldest buy lot of its type that is not exhausted
\* before any newer one and never a buy that comes after it in that order; and
\* the matching loop of each sell ends, with the sell fully matched or the
\* queue of the type empty.
C25_FIFOMatching ==
    /\ [](ProcessedInOrder /\ MatchesAreFIFO)
    /\ [][MatchingLoopStep]_vars
    /\ (pfPc = "match") ~> (pfPc = "loop" /\ (pfRemaining = 0 \/ Len(pfQueue) = 0))

\* C25 witness: a sell was matched with two buy lots of its type, the older
\* one, dated later in the list passed in, first
C25_Witness ==
    /\ pfPc = "done"
    /\ \E j, k \in 1..Len(matches) :
           /\ j < k
           /\ matches[j].sell = matches[k].sell
           /\ matches[j].buy > matches[k].buy

\* the sum of the quantities of the transactions of txns from index i on that
\* satisfy Keep
RECURSIVE SumTxQuantity(_, _)
SumTxQuantity(Keep(_), i) ==
    IF i > Len(txns) THEN 0
    ELSE (IF Keep(txns[i]) THEN txns[i].Quantity ELSE 0) + SumTxQuantity(Keep, i + 1)

\* the sum of the quantities of the matches from index k on whose sell
\* satisfies Keep
RECURSIVE SumMatched(_, _)
SumMatched(Keep(_), k) ==
    IF k > Len(matches) THEN 0
    ELSE (IF Keep(TxOf(matches[k].sell)) THEN matches[k].quantity ELSE 0)
         + SumMatched(Keep, k + 1)

\* the day the lookback window of the call starts
WindowStart ==
    PortfolioNow - (IF pfOpt.LookbackDays <= 0 THEN 30
                    ELSE IF pfOpt.LookbackDays > 365 THEN 365 ELSE pfOpt.LookbackDays)

\* the quantity of a type on hand after the first i transactions in order of
\* time: a buy adds its quantity, a sell takes what it can
RECURSIVE OnHand(_, _, _)
OnHand(order, i, typeID) ==
    IF i = 0 THEN 0
    ELSE LET before == OnHand(order, i - 1, typeID)
             tx == order[i]
         IN IF tx.TypeID # typeID THEN before
            ELSE IF tx.IsBuy THEN before + tx.Quantity
            ELSE IF tx.Quantity > before THEN 0 ELSE before - tx.Quantity

\* the transactions of txns in the order of Precedes
InOrder ==
    CHOOSE order \in [1..Len(txns) -> {txns[i] : i \in 1..Len(txns)}] :
        \A i, j \in 1..Len(txns) : i < j => Precedes(order[i], order[j])

OpenQuantity(typeID) ==
    IF HasKey(pfOut.OpenPositions, typeID) THEN pfOut.OpenPositions[typeID] ELSE 0

\* C28: in the result, MatchedSellQty + UnmatchedSellQty = TotalSellQty, the
\* three counted over the sells inside the lookback window, and for every
\* type the quantity left in the open buy lots is the quantity bought minus
\* the quantity consumed by the sells of the type, inside the window or not.
C28_CoverageConservation ==
    (pfPc = "done" /\ Len(txns) > 0) =>
        LET cov == pfOut.Coverage
            InWindowSell(tx) == ~tx.IsBuy /\ tx.t >= WindowStart
        IN /\ cov.MatchedSellQty + cov.UnmatchedSellQty = cov.TotalSellQty
           /\ cov.TotalSellQty = SumTxQuantity(InWindowSell, 1)
           /\ cov.MatchedSellQty = SumMatched(InWindowSell, 1)
           /\ cov.UnmatchedSellQty >= 0
           /\ \A ty \in TradableTypeIDs :
                  LET BuyOfType(tx) == tx.IsBuy /\ tx.TypeID = ty
                      SellOfType(tx) == ~tx.IsBuy /\ tx.TypeID = ty
                  IN /\ OpenQuantity(ty)
                          = SumTxQuantity(BuyOfType, 1) - SumMatched(SellOfType, 1)
                     /\ OpenQuantity(ty) = OnHand(InOrder, Len(txns), ty)
                     /\ OpenQuantity(ty) = SumRemaining(QueueOf(buyQueues, ty), 1)

\* C28 witness: a result in which a sell before the window consumed a part of
\* a lot, and a sell inside the window was matched in part and left
\* unmatched in part
C28_Witness ==
    /\ pfPc = "done"
    /\ pfOut.Coverage.MatchedSellQty > 0
    /\ pfOut.Coverage.UnmatchedSellQty > 0
    /\ \E k \in 1..Len(matches) : TxOf(matches[k].sell).t < WindowStart

-----------------------------------------------------------------------------
(* Claims about the parallel fetch of the contract scan, checked under     *)
(* SpecFanIn                                                               *)

\* a run of the scan has returned
ScanReturned == fPc = "idle" /\ cCall # NoCall

\* every goroutine the run started has finished
AllFetchesFinished ==
    /\ ordersPc.sell = "done"
    /\ ordersPc.buy = (IF fParams.ContractInstantLiquidation THEN "done" ELSE "none")
    /\ contractsPc = "done"
    /\ DOMAIN regionPc = BuyRegions(fParams)
    /\ \A rid \in DOMAIN regionPc : regionPc[rid] \in {"done", "failed"}

\* the ids of the contracts of the regions
ContractIDsOf(regions) ==
    {id \in fMarket.contracts : ContractRegion(FanInEntry(id).contract) \in regions}

\* the main goroutine goes on from wg.Wait only when every goroutine has
\* finished, and allContracts changes only by the append of the goroutine
\* that holds contractsMu
FanInStep ==
    /\ (fPc = "wait" /\ fPc' = "idle") => AllFetchesFinished
    /\ (fPc = "wait" /\ allContracts' # allContracts)
           => /\ contractsMu # 0
              /\ regionPc[contractsMu] = "append"
              /\ allContracts' = allContracts \o RegionContracts(contractsMu)

\* C30: ScanContracts reads the sell orders, the liquidation buy orders and
\* the merged contract list only after every fetch goroutine it started has
\* finished; every append to the merged list is done holding contractsMu;
\* and the merged list holds exactly the contracts of the regions whose
\* fetch succeeded, each once.
C30_FanIn ==
    /\ [][FanInStep]_vars
    /\ [](\A rid \in DOMAIN regionPc : regionPc[rid] = "append" => contractsMu = rid)
    /\ [](ScanReturned =>
             /\ sellOrders = fMarket.sell
             /\ buyOrdersForLiquidation
                    = (IF fParams.ContractInstantLiquidation THEN fMarket.buy ELSE <<>>)
             /\ {allContracts[i].ContractID : i \in 1..Len(allContracts)}
                    = ContractIDsOf(BuyRegions(fParams) \ cCall.failed)
             /\ \A i, j \in 1..Len(allContracts) :
                    i # j => allContracts[i].ContractID # allContracts[j].ContractID)

\* C30 witness: a run in instant mode over three regions has returned, the
\* fetch of one region failed and the contracts of the two others are merged
C30_Witness ==
    /\ ScanReturned
    /\ fParams.ContractInstantLiquidation
    /\ Cardinality(BuyRegions(fParams)) = 3
    /\ Cardinality(cCall.failed) = 1
    /\ Len(allContracts) = 2

\* the contracts of the regions whose fetch succeeded are the ones the scan
\* examined: the merged list holds them and none of a failed region
FailedRegionsSkipped ==
    /\ \A i \in 1..Len(allContracts) : ContractRegion(allContracts[i]) \notin cCall.failed
    /\ \A id \in ContractIDsOf(BuyRegions(fParams) \ cCall.failed) :
           \E i \in 1..Len(allContracts) : allContracts[i].ContractID = id
    /\ cCall.ret \in ScanContractsOutcomes(fParams)

\* C21: when FetchRegionContractsCached fails for a region, the contracts of
\* the region are skipped, a progress warning for the region is emitted to
\* the progress sink, the contracts of every other region are still
\* evaluated, and ScanContracts returns no error.
C21_RegionFailure ==
    (ScanReturned /\ cCall.failed # {}) =>
        /\ FailedRegionsSkipped
        /\ cCall.err = NilError
        /\ \A rid \in cCall.failed :
               \E i \in 1..Len(cCall.progress) :
                   /\ cCall.progress[i].phase \notin
                          {"Finding systems within radius",
                           "Fetching market orders + contracts", "Evaluating contracts",
                           "Fetching contract items", "Fetching market history",
                           "Found profitable contracts"}
                   /\ cCall.progress[i].n = rid

\* two runs of the scan on the same parameters, orders, contracts, items and
\* history have returned, every fetch of both having succeeded
TwoRunsReturned ==
    /\ ScanReturned
    /\ cPrev # NoCall
    /\ cPrev.failed = {}
    /\ cCall.failed = {}

\* C24: for identical parameters, orders, contracts, items and history, two
\* runs of ScanContracts return the same contracts in the same order,
\* whatever the interleaving of the region goroutines and also when several
\* contracts have equal ranking keys.
C24_RankingStable ==
    TwoRunsReturned => cCall.ret = cPrev.ret

\* C23: when the caller cancels a contract scan while it is running, every
\* outstanding fetch is cancelled, the evaluation stops, and the scan ends
\* without returning a result set: no fetch delivers anything after the
\* cancellation, and the cancelled run returns an error and no contract.
C23_Cancellation ==
    /\ [][(fPc = "wait" /\ fCancelled)
              => /\ sellOrders' = sellOrders
                 /\ buyOrdersForLiquidation' = buyOrdersForLiquidation
                 /\ allContracts' = allContracts]_vars
    /\ []((ScanReturned /\ cCall.cancelled)
             => (Len(cCall.ret) = 0 /\ cCall.err # NilError))

\* the place of a progress message in the order of the phases
PhaseRank(phase) ==
    CASE phase = "Finding systems within radius" -> 1
      [] phase = "Fetching market orders + contracts" -> 2
      [] phase = "Evaluating contracts" -> 3
      [] phase = "Fetching contract items" -> 4
      [] phase = "Fetching market history" -> 5
      [] phase = "Found profitable contracts" -> 6

\* no message of an earlier phase comes after one of a later phase, and the
\* first messages are those of finding the systems and of fetching
PhasesInOrder ==
    /\ \A i, j \in 1..Len(fProgress) :
           i < j => PhaseRank(fProgress[i].phase) <= PhaseRank(fProgress[j].phase)
    /\ fPc = "wait" => (Len(fProgress) = 2 /\ PhaseRank(fProgress[1].phase) = 1
                           /\ PhaseRank(fProgress[2].phase) = 2)

LastProgress == cCall.progress[Len(cCall.progress)]

-----------------------------------------------------------------------------
(* Claims about the history worker pool, checked under FairSpecHistory     *)

\* the number of workers of a stage, the one of the observed type id included
WorkersAt(stage) == hWorkers[stage] + (IF hTag = stage THEN 1 ELSE 0)

\* the history fetches in flight: the workers started and not yet through
\* their body
InFlight == WorkersAt("running")

HistoryRan == hLoop = "returned" /\ hInput.store

\* C26: during fetchContractItemsHistory at most 30 history fetches are in
\* flight at any moment, every type id that has price data is processed
\* exactly once, and the function returns, and only after every started
\* worker has finished.
C26_BoundedWorkerPool ==
    /\ [](InFlight <= 30 /\ InFlight = sem /\ hTagRuns <= 1)
    /\ [](HistoryRan =>
             /\ WorkersAt("sending") = 0
             /\ WorkersAt("running") = 0
             /\ WorkersAt("releasing") = 0
             /\ hWorkers.done = hInput.priced
             /\ hUnvisited = [priced |-> 0, unpriced |-> 0]
             /\ hInput.observed => (hTag = "done" /\ hTagRuns = 1)
             /\ sem = 0)
    /\ (hLoop = "start") ~> (hLoop = "returned")

\* C26 witness: 30 fetches are in flight and the loop waits at the
\* semaphore to start the worker of the observed type id
C26_Witness ==
    /\ InFlight = 30
    /\ hLoop = "send"
    /\ hTag = "sending"
    /\ hUnvisited.priced > 0

-----------------------------------------------------------------------------
(* Claims about concurrent scans, checked under SpecConcurrentScans        *)

\* C27: when two scans complete concurrently and each runs
\* CheckWatchlistAlerts and then SendAlert for the same enabled watchlist
\* item whose value meets the threshold, under every interleaving at most
\* one alert_history row of the triple (type_id, metric, threshold) is
\* recorded within one cooldown window.
C27_ConcurrentCooldown ==
    \A triple \in {RowTriple(r) : r \in alert_history} :
        \A t0 \in {ParseRFC3339(r.SentAt) : r \in alert_history} :
            Cardinality({r \in alert_history :
                            /\ RowTriple(r) = triple
                            /\ t0 <= ParseRFC3339(r.SentAt)
                            /\ ParseRFC3339(r.SentAt) < t0 + Cooldown}) <= 1

====
